---- MODULE Spec2Model ----
(***************************************************************************)
(* A model of LCIcoder.cpp: the encoder and decoder of the IEEE 802.11     *)
(* LCI measurement element (LCI, Z, Usage and Colocated-BSSID              *)
(* subelements), with main()'s control flow around them.                   *)
(*                                                                         *)
(* Representation of the C data:                                           *)
(*  - a char is its ASCII code; a char array is a sequence of codes, the   *)
(*    C index i being the TLA+ index i+1; a C string ends at the first 0;  *)
(*  - a long long is a record [hi, lo] standing for hi * 2^17 + lo with    *)
(*    lo in 0 .. 2^17-1 (TLC's integers are 32 bits wide, the 34-bit       *)
(*    latitude and longitude are not);                                     *)
(*  - a double holding a fixed-point quantity is a record [hi, lo, fr]     *)
(*    standing for (hi * 2^17 + lo + fr/4) / 2^m, m being the number of    *)
(*    fraction bits of the field it belongs to (25, 8, 4 or 12), fr in     *)
(*    0 .. 3; multiplying by 2^m and dividing by 2^m are exact in double   *)
(*    arithmetic, so only the rounding of fr is left to model;             *)
(*  - a double holding an uncertainty is [sgn, e, f]: 0 when sgn = 0,      *)
(*    negative when sgn = -1, and for sgn = 1 a value v with               *)
(*    log2(v) = e + d where d = 0 (f = 0), 0 < d <= eps (f = 1) or         *)
(*    eps < d < 1 (f = 2).                                                 *)
(***************************************************************************)
EXTENDS Integers, Sequences, FiniteSets, TLC

VARIABLES
    g,        \* the global variables of the program (lines 113-183), one field each
    str,      \* the char array that is being encoded into or decoded from
    junk,     \* what a read outside every array yields (undefined behaviour)
    pc,       \* where main() is
    todo,     \* the calls main() has still to make
    nbyt,     \* decodeLCIstring's octet cursor; encodeLCIstring's final cursor
    slen,     \* decodeLCIstring's slen
    diag,     \* the ERROR: and WARNING: lines printed so far
    mark,     \* how many of them were printed before the call that main() made last
    maxread,  \* the highest octet index decodeLCIstring has read from str, -1 if none
    subs,     \* one record per iteration of decodeLCIstring's loop
    g0,       \* the globals as they were when encodeLCIstring was entered
    called,   \* the calls main() has made that have returned
    inv,      \* two invocations of the codec that share the globals: their locals
    bf,       \* the bit field that putbits was last called with, and the array before
    heap      \* "overrun" once a write has gone past the end of an allocated array

vars == <<g, str, junk, pc, todo, nbyt, slen, diag, mark, maxread, subs, g0, called, inv, bf, heap>>

---------------------------------------------------------------------------
(* Program constants *)

LCI_VERSION_1 == 1
MAX_LCI_UNCERTAINTY == 34
MAX_Z_UNCERTAINTY == 24
MEASURE_TOKEN == 1
MEASURE_REQUEST_MODE == 0
LCI_TYPE == 8
LCI_CODE == 0
Z_CODE == 4
USAGE_CODE == 6
COLOCATED_BSSID == 7

\* limb size of the long long representation, 2^17
LIMB == 131072

---------------------------------------------------------------------------
(* Characters and octets *)

NUL == 0

\* TRUE, once v has been computed: TLC evaluates the arguments of an operator
\* lazily, and a loop that hands an unevaluated accumulator on nests too deeply
Evaluated(v) == v = v

ishexdigit(c) ==
    \/ (c >= 48 /\ c <= 57)
    \/ (c >= 65 /\ c <= 70)
    \/ (c >= 97 /\ c <= 102)

\* c & 0x0F is c % 16 for c >= 0; a char that is no hex digit gives 0 (and a
\* printed ERROR, see BadHex)
hextoint(c) ==
    IF c >= 48 /\ c <= 57 THEN c % 16
    ELSE IF (c >= 65 /\ c <= 70) \/ (c >= 97 /\ c <= 102) THEN (c % 16) + 9
    ELSE 0

\* "0123456789abcdef"[k], or 0 with a printed ERROR
inttohex(k) ==
    IF k >= 0 /\ k <= 9 THEN 48 + k
    ELSE IF k >= 10 /\ k <= 15 THEN 87 + k
    ELSE 0

\* str[i]: a read past the array yields junk
CharAt(s, i) == IF i >= 0 /\ i < Len(s) THEN s[i + 1] ELSE junk

\* str[i] = c (no write of the program falls outside its array)
PutChar(s, i, c) == IF i >= 0 /\ i < Len(s) THEN [s EXCEPT ![i + 1] = c] ELSE s

\* the pointer str + off
Ptr(s, off) == SubSeq(s, off + 1, Len(s))

\* the index of the first NUL at or after i (the end of the array if there is
\* none), found without a recursion over the chars
strlenFrom(s, i) ==
    LET nuls == {k \in i .. Len(s) - 1 : s[k + 1] = NUL}
    IN  IF i >= Len(s) THEN i
        ELSE IF nuls = {} THEN Len(s)
        ELSE CHOOSE n \in nuls : \A k \in nuls : n <= k

strlen(s) == strlenFrom(s, 0)

\* the C string held by an array: the chars before the first NUL
CString(s) == SubSeq(s, 1, strlen(s))

getoctet(s, n) == hextoint(CharAt(s, n * 2)) * 16 + hextoint(CharAt(s, n * 2 + 1))

\* hextoint prints an ERROR for these reads
BadHex(s, n) == ~ishexdigit(CharAt(s, n * 2)) \/ ~ishexdigit(CharAt(s, n * 2 + 1))

\* (the loops of the decoder hand their accumulator on as a bound variable r: it
\* is then a value, computed once, wherever TLC evaluates the loop)
RECURSIVE getnumberLoop(_, _, _, _)
getnumberLoop(s, k, last, res) ==
    IF k >= last THEN res
    ELSE CHOOSE v \in {getnumberLoop(s, k + 1, last, r) : r \in {res * 256 + getoctet(s, k)}} : TRUE

getnumber(s, n, ndig) == getnumberLoop(s, n, n + ndig, 0)

\* the long long 0 and conversions between int and long long
LL0 == [hi |-> 0, lo |-> 0]

IntToLL(n) == [hi |-> n \div LIMB, lo |-> n % LIMB]

LLtoInt(v) == v.hi * LIMB + v.lo

\* (val & (1LL << i)) != 0, two's complement, for i < 48
LLbit(v, i) ==
    IF i < 17 THEN (v.lo \div (2 ^ i)) % 2 ELSE (v.hi \div (2 ^ (i - 17))) % 2

\* res | (1LL << i) when that bit of res is clear
LLsetbit(v, i) ==
    IF i < 17 THEN [v EXCEPT !.lo = @ + 2 ^ i] ELSE [v EXCEPT !.hi = @ + 2 ^ (i - 17)]

getbit(s, indx) ==
    LET n == indx \div 8
        lft == indx - n * 8
    IN  (getoctet(s, n) \div (2 ^ lft)) % 2

\* the iterations i .. nlen-1 of the loop of getbits, in their order, on the
\* accumulator res: one iteration, or the first half of them and then the rest
\* (the evaluation then nests once per halving, not once per bit)
RECURSIVE getbitsLoop(_, _, _, _, _)
getbitsLoop(s, bstart, nlen, i, res) ==
    IF i >= nlen THEN res
    ELSE IF i + 1 = nlen
    THEN (IF getbit(s, bstart + i) = 1 THEN LLsetbit(res, i) ELSE res)
    ELSE CHOOSE v \in {getbitsLoop(s, bstart, nlen, (i + nlen) \div 2, r) :
                        r \in {getbitsLoop(s, bstart, (i + nlen) \div 2, i, res)}} : TRUE

getbits(s, bstart, nlen) == getbitsLoop(s, bstart, nlen, 0, LL0)

putoctet(s, n, oct) ==
    PutChar(PutChar(s, n * 2, inttohex(oct \div 16)), n * 2 + 1, inttohex(oct % 16))

RECURSIVE putnumberLoop(_, _, _, _, _)
putnumberLoop(s, n, ndig, k, num) ==
    IF k >= n + ndig THEN s
    ELSE LET byt == (num \div (2 ^ ((n + ndig - k - 1) * 8))) % 256
             t == putoctet(s, k, byt)
         IN  IF Evaluated(t) THEN putnumberLoop(t, n, ndig, k + 1, num) ELSE t

putnumber(s, n, ndig, num) == putnumberLoop(s, n, ndig, n, num)

\* putbit, were the bits of an octet counted from the most significant one
putbitMSBfirst(s, indx, bit) ==
    LET n == indx \div 8
        lft == 7 - (indx - n * 8)
        oct == getoctet(s, n)
        has == (oct \div (2 ^ lft)) % 2
        new == IF bit = 1 THEN (IF has = 1 THEN oct ELSE oct + 2 ^ lft)
                          ELSE (IF has = 1 THEN oct - 2 ^ lft ELSE oct)
    IN  putoctet(s, n, new)

putbit(s, indx, bit) ==
    LET n == indx \div 8
        lft == indx - n * 8
        oct == getoctet(s, n)
        has == (oct \div (2 ^ lft)) % 2
        new == IF bit = 1 THEN (IF has = 1 THEN oct ELSE oct + 2 ^ lft)
                          ELSE (IF has = 1 THEN oct - 2 ^ lft ELSE oct)
    IN  putoctet(s, n, new)

\* the iterations i .. nlen-1 of the loop of putbits, in their order, on the
\* array s: one iteration, or the first half of them and then the rest
RECURSIVE putbitsLoop(_, _, _, _, _)
putbitsLoop(s, bstart, nlen, i, val) ==
    IF i >= nlen THEN s
    ELSE IF i + 1 = nlen THEN putbit(s, bstart + i, LLbit(val, i))
    ELSE CHOOSE v \in {putbitsLoop(t, bstart, nlen, (i + nlen) \div 2, val) :
                        t \in {putbitsLoop(s, bstart, (i + nlen) \div 2, i, val)}} : TRUE

\* the array after putbits(str, bstart, nlen, val); the call returns bstart + nlen
putbits(s, bstart, nlen, val) == putbitsLoop(s, bstart, nlen, 0, val)

\* propagate_sign that leaves the number as read, bit nlen-1 not extended
NoSignExtension(res, nlen) == res

\* propagate the sign bit of an nlen-bit number (17 < nlen <= 34) to a long long:
\* res | ~((1LL << nlen) - 1) is res - 2^nlen when bit nlen-1 is set
propagate_sign(res, nlen) ==
    IF LLbit(res, nlen - 1) = 1 THEN [res EXCEPT !.hi = @ - 2 ^ (nlen - 17)] ELSE res

---------------------------------------------------------------------------
(* Doubles *)

\* the double that holds the integer v (a long long) exactly
Dbl(v) == [hi |-> v.hi, lo |-> v.lo, fr |-> 0]

D0 == Dbl(LL0)

LLinc(v) == IF v.lo = LIMB - 1 THEN [hi |-> v.hi + 1, lo |-> 0] ELSE [v EXCEPT !.lo = @ + 1]

\* roundl and round: to the nearest integer, halfway cases away from zero
roundl(x) ==
    LET n == [hi |-> x.hi, lo |-> x.lo]
    IN  IF x.fr <= 1 THEN n
        ELSE IF x.fr = 3 THEN LLinc(n)
        ELSE IF x.hi >= 0 THEN LLinc(n) ELSE n

\* the conversion (int)x: toward zero
truncate(x) ==
    LET n == [hi |-> x.hi, lo |-> x.lo]
    IN  IF x.hi >= 0 \/ x.fr = 0 THEN n ELSE LLinc(n)

\* uncertainties
U0 == [sgn |-> 0, e |-> 0, f |-> 0]

\* 2^{m-n}, exp2(m-n) is exact
decodebinarydot(n, m) == [sgn |-> 1, e |-> m - n, f |-> 0]

\* encodebinarydot with eps added: m - ceil(log2(val) + eps), so that an exact
\* power of two is rounded up to the next exponent
encodebinarydotEpsAdded(val, m) ==
    IF val.sgn # 1
    THEN [res |-> 0, msg |-> <<"ERROR: uncertainty non-positive">>]
    ELSE LET res == m - (val.e + 1)
         IN  IF res <= 0
             THEN [res |-> 1, msg |-> <<"WARNING: uncertainty way too large">>]
             ELSE IF res > MAX_LCI_UNCERTAINTY
             THEN [res |-> MAX_LCI_UNCERTAINTY, msg |-> <<"WARNING: uncertainty too small">>]
             ELSE [res |-> res, msg |-> <<>>]

\* m - ceil(log2(val) - eps), eps = 0.000001, with its range checks; res is the
\* value returned and msg what is printed
encodebinarydot(val, m) ==
    IF val.sgn # 1
    THEN [res |-> 0, msg |-> <<"ERROR: uncertainty non-positive">>]
    ELSE LET ceiling == IF val.f = 2 THEN val.e + 1 ELSE val.e
             res == m - ceiling
         IN  IF res <= 0
             THEN [res |-> 1, msg |-> <<"WARNING: uncertainty way too large">>]
             ELSE IF res > MAX_LCI_UNCERTAINTY
             THEN [res |-> MAX_LCI_UNCERTAINTY, msg |-> <<"WARNING: uncertainty too small">>]
             ELSE [res |-> res, msg |-> <<>>]

\* checksettings without its test of expected_to_move (lines 431-432)
checksettingsMoveUntested(G) ==
    (IF G.retransmission_allowed = 0
     THEN <<"WARNING: Android: retransmission_allowed is false">> ELSE <<>>)
    \o (IF G.retention_expires_present # 0
        THEN <<"WARNING: Android: retention_expires_present is true">> ELSE <<>>)
    \o (IF G.expiration # 0
        THEN <<"WARNING: Android: expiration time != 0">> ELSE <<>>)

checksettings(G) ==
    (IF G.retransmission_allowed = 0
     THEN <<"WARNING: Android: retransmission_allowed is false">> ELSE <<>>)
    \o (IF G.retention_expires_present # 0
        THEN <<"WARNING: Android: retention_expires_present is true">> ELSE <<>>)
    \o (IF G.expiration # 0
        THEN <<"WARNING: Android: expiration time != 0">> ELSE <<>>)
    \o (IF G.expected_to_move # 0
        THEN <<"WARNING: Android: expected_to_move is true">> ELSE <<>>)

---------------------------------------------------------------------------
(* Encoding *)

\* the code of an LCI uncertainty field when smallestflag is not looked at: an
\* uncertainty that is not positive is always "unknown"
encodeLCIuncertaintyUnknown(G, u, m) ==
    IF u.sgn = 1 THEN encodebinarydot(u, m) ELSE [res |-> 0, msg |-> <<>>]

\* lines 464-466 (and 467-469, 470-472): the code of an LCI uncertainty field
encodeLCIuncertainty(G, u, m) ==
    IF u.sgn = 1 THEN encodebinarydot(u, m)
    ELSE IF G.smallestflag = 0 THEN [res |-> 0, msg |-> <<>>]
    ELSE [res |-> MAX_LCI_UNCERTAINTY, msg |-> <<>>]

\* the binary point of the latitude and longitude uncertainty, and of the
\* altitude uncertainty, as encodeLCIfield passes them to encodebinarydot
encodeLatLonPoint == 8

encodeAltitudePoint == 21

\* the fields lines 487-498 write, in their order: <<width in bits, value>>
LCIfieldBits(G, LatU, LonU, AltU) ==
    << <<6, IntToLL(LatU)>>, <<34, roundl(G.latitude)>>,
       <<6, IntToLL(LonU)>>, <<34, roundl(G.longitude)>>,
       <<4, IntToLL(G.Altitude_Type)>>,
       <<6, IntToLL(AltU)>>, <<30, roundl(G.altitude)>>,
       <<3, IntToLL(G.datum)>>,
       <<1, IntToLL(G.RegLoc_Agreement)>>,
       <<1, IntToLL(G.RegLoc_DSE)>>,
       <<1, IntToLL(G.Dependent_STA)>>,
       <<2, IntToLL(G.LCI_version)>> >>

\* indx = putbits(str, indx, width, value) for the fields from the i-th on
RECURSIVE putfields(_, _, _, _)
putfields(s, indx, fields, i) ==
    IF i > Len(fields) THEN s
    ELSE LET t == putbits(s, indx, fields[i][1], fields[i][2])
         IN  IF Evaluated(t) THEN putfields(t, indx + fields[i][1], fields, i + 1) ELSE t

encodeLCIfield(G, s, n) ==
    LET LatU == encodeLCIuncertainty(G, G.latitude_uncertainty, encodeLatLonPoint)
        LonU == encodeLCIuncertainty(G, G.longitude_uncertainty, encodeLatLonPoint)
        AltU == encodeLCIuncertainty(G, G.altitude_uncertainty, encodeAltitudePoint)
        indx == (n + 2) * 8
        b == putfields(putoctet(putoctet(s, n, LCI_CODE), n + 1, 16), indx,
                       LCIfieldBits(G, LatU.res, LonU.res, AltU.res), 1)
        end == (indx + 128) \div 8
    IN  [str |-> PutChar(b, end * 2, NUL), nbyt |-> end,
         msg |-> LatU.msg \o LonU.msg \o AltU.msg]

encodeZfield(G, s, n) ==
    LET s1 == putoctet(s, n, Z_CODE)
        s2 == putoctet(s1, n + 1, 6)
        STA_Floor_Info == (G.expected_to_move % 4) + LLtoInt(truncate(G.sta_floor)) * 4
        STA_Height_Above_Floor == LLtoInt(truncate(G.sta_height_above_floor))
        U == IF G.sta_height_above_floor_uncertainty.sgn = 1
             THEN encodebinarydot(G.sta_height_above_floor_uncertainty, 11)
             ELSE IF G.smallestflag = 0 THEN [res |-> 0, msg |-> <<>>]
             ELSE [res |-> MAX_Z_UNCERTAINTY, msg |-> <<>>]
        STA_Height_Above_Floor_Uncertainty ==
            IF U.res > MAX_Z_UNCERTAINTY THEN MAX_Z_UNCERTAINTY ELSE U.res
        s3 == putnumber(s2, n + 2, 2, STA_Floor_Info)
        s4 == putnumber(s3, n + 4, 3, STA_Height_Above_Floor)
        s5 == putnumber(s4, n + 7, 1, STA_Height_Above_Floor_Uncertainty)
    IN  [str |-> PutChar(s5, (n + 8) * 2, NUL), nbyt |-> n + 8, msg |-> U.msg]

\* encodeUsageField without lines 546-559: retention_expires_present is written as
\* it was supplied, whatever the expiration
encodeUsageFieldAsGiven(G, s, n) ==
    LET rep == G.retention_expires_present
        s1 == putoctet(s, n, USAGE_CODE)
        s2 == putoctet(s1, n + 1, IF rep # 0 THEN 3 ELSE 1)
        s3 == putoctet(s2, n + 2,
                       G.retransmission_allowed + rep * 2 + G.STA_location_policy * 4)
        s4 == IF rep # 0 THEN putnumber(s3, n + 3, 2, G.expiration) ELSE s3
        end == IF rep # 0 THEN n + 5 ELSE n + 3
    IN  [G |-> G, str |-> PutChar(s4, end * 2, NUL), nbyt |-> end, msg |-> <<>>]

\* G is the globals after the call: the function overrides retention_expires_present
encodeUsageField(G, s, n) ==
    LET inconsistent ==
            IF G.retention_expires_present # 0 THEN G.expiration = 0 ELSE G.expiration # 0
        rep == IF inconsistent
               THEN (IF G.retention_expires_present # 0 THEN 0 ELSE 1)
               ELSE G.retention_expires_present
        nlen == IF rep # 0 THEN 3 ELSE 1
        msg == IF ~inconsistent THEN <<>>
               ELSE IF G.retention_expires_present # 0
               THEN <<"WARNING: Inconsistency: Retention_expires_present true but expiration == 0">>
               ELSE <<"WARNING: Inconsistency: Retention_expires_present false but expiration != 0">>
        s1 == putoctet(s, n, USAGE_CODE)
        s2 == putoctet(s1, n + 1, nlen)
        parameters == G.retransmission_allowed + rep * 2 + G.STA_location_policy * 4
        s3 == putoctet(s2, n + 2, parameters)
        s4 == IF rep # 0 THEN putnumber(s3, n + 3, 2, G.expiration) ELSE s3
        end == IF rep # 0 THEN n + 5 ELSE n + 3
    IN  [G |-> [G EXCEPT !.retention_expires_present = rep],
         str |-> PutChar(s4, end * 2, NUL), nbyt |-> end, msg |-> msg]

---------------------------------------------------------------------------
(* Colocated BSSIDs.  g.BSSIDS holds the slots 0 .. bssid_index-1 of the   *)
(* array BSSIDS, each a C string; the array has max_bssids+1 slots.        *)

isValidBSSID(b) ==
    IF Len(b) = 6 * 3 - 1
    THEN \A k \in 0 .. 5 :
            /\ k > 0 => b[3 * k] \in {58, 45, 95}
            /\ ishexdigit(b[3 * k + 1]) /\ ishexdigit(b[3 * k + 2])
    ELSE IF Len(b) = 6 * 2
    THEN \A k \in 0 .. 5 : ishexdigit(b[2 * k + 1]) /\ ishexdigit(b[2 * k + 2])
    ELSE FALSE

\* strchr(str, ','), or the end of the string: the index of the first ',' at or after i
strchrComma(a, i) ==
    LET commas == {k \in i .. Len(a) - 1 : a[k + 1] = 44}
    IN  IF i >= Len(a) THEN i
        ELSE IF commas = {} THEN Len(a)
        ELSE CHOOSE n \in commas : \A k \in commas : n <= k

\* the loop of extractBSSID from position i of the string a
RECURSIVE extractBSSIDLoop(_, _, _, _)
extractBSSIDLoop(G, a, i, msg) ==
    IF i >= Len(a) THEN [G |-> G, msg |-> msg]
    ELSE LET G1 == IF G.bssid_index >= G.max_bssids
                   THEN [G EXCEPT !.max_bssids = @ * 2] ELSE G
             strend == strchrComma(a, i)
             BSSID == SubSeq(a, i + 1, strend)
             G2 == IF isValidBSSID(BSSID)
                   THEN [G1 EXCEPT !.BSSIDS = Append(@, BSSID), !.bssid_index = @ + 1]
                   ELSE G1
             msg2 == IF isValidBSSID(BSSID) THEN msg
                     ELSE Append(msg, "ERROR: invalid colocated BSSID")
         IN  IF strend >= Len(a) \/ ~Evaluated(<<G2, msg2>>) THEN [G |-> G2, msg |-> msg2]
             ELSE extractBSSIDLoop(G2, a, strend + 1, msg2)

extractBSSID(G, a) == extractBSSIDLoop(G, a, 0, <<>>)

RECURSIVE placeBSSIDLoop(_, _, _, _, _)
placeBSSIDLoop(s, n, bssid, step, k) ==
    IF k >= 6 THEN s
    ELSE LET t == PutChar(PutChar(s, (n + k) * 2, bssid[k * step + 1]),
                          (n + k) * 2 + 1, bssid[k * step + 2])
         IN  IF Evaluated(t) THEN placeBSSIDLoop(t, n, bssid, step, k + 1) ELSE t

placeBSSID(s, n, bssid) ==
    IF Len(bssid) = 6 * 3 - 1
    THEN [str |-> placeBSSIDLoop(s, n, bssid, 3, 0), nbyt |-> n + 6, msg |-> <<>>]
    ELSE IF Len(bssid) = 6 * 2
    THEN [str |-> placeBSSIDLoop(s, n, bssid, 2, 0), nbyt |-> n + 6, msg |-> <<>>]
    ELSE [str |-> s, nbyt |-> n, msg |-> <<"ERROR: invalid BSSID format">>]

RECURSIVE placeAllBSSIDs(_, _, _)
placeAllBSSIDs(G, r, k) ==
    IF k >= G.bssid_index THEN r
    ELSE LET p == placeBSSID(r.str, r.nbyt, G.BSSIDS[k + 1])
             t == [str |-> p.str, nbyt |-> p.nbyt, msg |-> r.msg \o p.msg]
         IN  IF Evaluated(t) THEN placeAllBSSIDs(G, t, k + 1) ELSE t

encodeColocatedBSSID(G, s, n, nbssids) ==
    IF G.bssid_index = 0 THEN [str |-> s, nbyt |-> n, msg |-> <<>>]
    ELSE LET maxBSSIDindicator == G.bssid_index
             s1 == putoctet(s, n, COLOCATED_BSSID)
             s2 == putoctet(s1, n + 1, nbssids * 6 + 1)
             s3 == putoctet(s2, n + 2, maxBSSIDindicator)
             r == placeAllBSSIDs(G, [str |-> s3, nbyt |-> n + 3, msg |-> <<>>], 0)
         IN  [str |-> PutChar(r.str, r.nbyt * 2, NUL), nbyt |-> r.nbyt, msg |-> r.msg]

---------------------------------------------------------------------------
(* encodeLCIstring: G is the globals after the call, str the array it      *)
(* returns, nbyt its cursor at the return, msg what it printed             *)

\* a subelement written after r: e is what its encoder returns
Emit(r, e) == [str |-> e.str, nbyt |-> e.nbyt, msg |-> r.msg \o e.msg]

needLCIflag(G) == G.latitude # D0 \/ G.longitude # D0 \/ G.altitude # D0

needZflag(G) ==
    \/ G.sta_floor # D0
    \/ G.sta_height_above_floor # D0
    \/ G.sta_height_above_floor_uncertainty.sgn # 0

needBSSIDflag(G) == G.bssid_index > 0

needUsageFlag(G) == needLCIflag(G) \/ needZflag(G) \/ needBSSIDflag(G)

\* lines 944-947: r is the array, the cursor and the output so far
encodeLCIstep(G, r) ==
    IF G.wantLCIflag # 0 THEN Emit(r, encodeLCIfield(G, r.str, r.nbyt)) ELSE r

\* lines 950-953
encodeZstep(G, r) ==
    IF G.wantZflag # 0 THEN Emit(r, encodeZfield(G, r.str, r.nbyt)) ELSE r

\* lines 956-959
encodeColocatedstep(G, r) ==
    IF G.wantColocatedflag # 0 /\ needBSSIDflag(G)
    THEN Emit(r, encodeColocatedBSSID(G, r.str, r.nbyt, G.bssid_index))
    ELSE r

\* lines 962-965, and the return
encodeUsagestep(G, r) ==
    IF G.wantUsageflag # 0 /\ needUsageFlag(G)
    THEN LET u == encodeUsageField(G, r.str, r.nbyt)
         IN  [G |-> u.G, str |-> u.str, nbyt |-> u.nbyt, msg |-> r.msg \o u.msg]
    ELSE [G |-> G, str |-> r.str, nbyt |-> r.nbyt, msg |-> r.msg]

encodeLCIstring(G) ==
    LET size == 3 + (2 + 16) + (2 + 6) + (2 + 3) + (2 + 6 * G.bssid_index + 1)
        nlen == size * 2
        s0 == [i \in 1 .. nlen + 1 |-> IF i <= nlen THEN 48 ELSE NUL]
        s1 == putoctet(putoctet(putoctet(s0, 0, MEASURE_TOKEN), 1, MEASURE_REQUEST_MODE),
                       2, LCI_TYPE)
        header == [str |-> s1, nbyt |-> 3, msg |-> checksettings(G)]
    IN  \* each step is computed before the next one starts (bound variables hold
        \* values), as the statements of the function are
        CHOOSE v \in {encodeUsagestep(G, c) :
                         c \in {encodeColocatedstep(G, z) :
                                  z \in {encodeZstep(G, l) :
                                           l \in {encodeLCIstep(G, header)}}}} : TRUE

---------------------------------------------------------------------------
(* Decoding *)

\* a / b of C for b > 0: the quotient is truncated toward zero
cdiv(a, b) == IF a >= 0 THEN a \div b ELSE -((-a) \div b)

Max(a, b) == IF a >= b THEN a ELSE b

\* strndup(str + off, len): at most len chars, up to the first NUL
strndup(s, off, len) ==
    LET raw == [i \in 1 .. len |-> CharAt(s, off + i - 1)]
    IN  SubSeq(raw, 1, strlen(raw))

\* the binary point of the latitude and longitude uncertainty, and of the
\* altitude uncertainty, as decodeLCIfield passes them to decodebinarydot
decodeLatLonPoint == 8

\* the fractional bits of the altitude itself (altitude = Altitude / 256.0), which
\* are not the binary point of its uncertainty
AltitudeValuePoint == 8

decodeAltitudePoint == 21

\* lines 675-681 (and 690-696, 708-714): the value of an LCI uncertainty field
decodeLCIuncertainty(code, m, error) ==
    LET clamped == IF code > MAX_LCI_UNCERTAINTY THEN MAX_LCI_UNCERTAINTY ELSE code
    IN  [val |-> IF clamped = 0 THEN U0 ELSE decodebinarydot(clamped, m),
         msg |-> IF code > MAX_LCI_UNCERTAINTY THEN <<error>> ELSE <<>>]

\* Altitude = (int) getbits(str, indx, 30); altitude = Altitude / 256.0
decodeAltitude(bits) == Dbl(IntToLL(LLtoInt(bits)))

\* s is the pointer str + nbyt*2 the function is called with, indx is 0;
\* codes are the three uncertainty codes as read
decodeLCIfield(G, s) ==
    LET Latitude_Uncertainty == LLtoInt(getbits(s, 0, 6))
        LatU == decodeLCIuncertainty(Latitude_Uncertainty, decodeLatLonPoint,
                                     "ERROR: latitude uncertainty code > 34")
        Latitude == propagate_sign(getbits(s, 6, 34), 34)
        Longitude_Uncertainty == LLtoInt(getbits(s, 40, 6))
        LonU == decodeLCIuncertainty(Longitude_Uncertainty, decodeLatLonPoint,
                                     "ERROR: longitude uncertainty code > 34")
        Longitude == propagate_sign(getbits(s, 46, 34), 34)
        Altitude_Type == LLtoInt(getbits(s, 80, 4))
        Altitude_Uncertainty == LLtoInt(getbits(s, 84, 6))
        AltU == decodeLCIuncertainty(Altitude_Uncertainty, decodeAltitudePoint,
                                     "ERROR: Altitude uncertainty code > 34")
        LCI_version == LLtoInt(getbits(s, 126, 2))
    IN  [G |-> [G EXCEPT !.latitude_uncertainty = LatU.val,
                         !.latitude = Dbl(Latitude),
                         !.longitude_uncertainty = LonU.val,
                         !.longitude = Dbl(Longitude),
                         !.Altitude_Type = Altitude_Type,
                         !.altitude_uncertainty = AltU.val,
                         !.altitude = decodeAltitude(getbits(s, 90, 30)),
                         !.datum = LLtoInt(getbits(s, 120, 3)),
                         !.RegLoc_Agreement = LLtoInt(getbits(s, 123, 1)),
                         !.RegLoc_DSE = LLtoInt(getbits(s, 124, 1)),
                         !.Dependent_STA = LLtoInt(getbits(s, 125, 1)),
                         !.LCI_version = LCI_version],
         indx |-> 128,
         msg |-> LatU.msg \o LonU.msg \o AltU.msg
                 \o (IF LCI_version # LCI_VERSION_1
                     THEN <<"ERROR: LCI Version is not 1">> ELSE <<>>),
         codes |-> <<Latitude_Uncertainty, Longitude_Uncertainty, Altitude_Uncertainty>>]

\* the Z uncertainty octet decoded without the test for code 0
decodeZuncertaintyNoZero(code) ==
    [val |-> decodebinarydot(code, 11),
     msg |-> IF code > MAX_Z_UNCERTAINTY
             THEN <<"ERROR: STA_Height_Above_Floor_Uncertainty > 24">> ELSE <<>>]

\* lines 840-847: the value of the Z subelement's uncertainty octet
decodeZuncertainty(code) ==
    [val |-> IF code > 0 THEN decodebinarydot(code, 11) ELSE U0,
     msg |-> IF code > MAX_Z_UNCERTAINTY
             THEN <<"ERROR: STA_Height_Above_Floor_Uncertainty > 24">> ELSE <<>>]

\* sta_floor = (double)(STA_Floor_Info >> 2) / 16.0
decodeFloor(STA_Floor_Info) == Dbl(IntToLL(STA_Floor_Info \div 4))

\* sta_height_above_floor = (double)STA_Height_Above_Floor / 4096.0
decodeHeight(STA_Height_Above_Floor) == Dbl(IntToLL(STA_Height_Above_Floor))

\* the Z_CODE case of decodeLCIstring for nlen 5 or 6 (lines 817-857); n is nbyt
\* after the ID and length octets
decodeZ(G, s, n, nlen) ==
    LET STA_Floor_Info == getnumber(s, n, 2)
        STA_Height_Above_Floor ==
            IF nlen = 5 THEN getnumber(s, n + 2, 2) ELSE getnumber(s, n + 2, 3)
        n3 == IF nlen = 5 THEN n + 4 ELSE n + 5
        STA_Height_Above_Floor_Uncertainty == getoctet(s, n3)
        U == decodeZuncertainty(STA_Height_Above_Floor_Uncertainty)
    IN  [G |-> [G EXCEPT !.expected_to_move = STA_Floor_Info % 4,
                         !.sta_floor = decodeFloor(STA_Floor_Info),
                         !.sta_height_above_floor = decodeHeight(STA_Height_Above_Floor),
                         !.sta_height_above_floor_uncertainty = U.val],
         nbyt |-> n3 + 1, msg |-> U.msg,
         codes |-> <<STA_Height_Above_Floor_Uncertainty>>]

\* the USAGE_CODE case with bit 0 and bit 1 of the parameter octet taken for each
\* other: RetentionExpiresPresent from bit 0, RetransmissionAllowed from bit 1
decodeUsageBitsSwapped(G, s, n, nlen) ==
    LET parameters == getoctet(s, n)
        expiration == IF nlen = 1 THEN 0 ELSE getnumber(s, n + 1, 2)
    IN  [G |-> [G EXCEPT !.retransmission_allowed = (parameters \div 2) % 2,
                         !.retention_expires_present = parameters % 2,
                         !.STA_location_policy = (parameters \div 4) % 2,
                         !.expiration = expiration],
         nbyt |-> IF nlen = 1 THEN n + 1 ELSE n + 1 + (nlen - 1),
         msg |-> <<>>]

\* the USAGE_CODE case of decodeLCIstring for nlen 1 or 3 (lines 869-899)
decodeUsage(G, s, n, nlen) ==
    LET parameters == getoctet(s, n)
        rep == (parameters \div 2) % 2
        expiration == IF nlen = 1 THEN 0 ELSE getnumber(s, n + 1, 2)
    IN  [G |-> [G EXCEPT !.retransmission_allowed = parameters % 2,
                         !.retention_expires_present = rep,
                         !.STA_location_policy = (parameters \div 4) % 2,
                         !.expiration = expiration],
         nbyt |-> IF nlen = 1 THEN n + 1 ELSE n + 1 + (nlen - 1),
         msg |-> (IF rep # 0 /\ nlen # 3
                  THEN <<"WARNING: Inconsistent fields: retention_expires_present true with nlen != 3">>
                  ELSE <<>>)
                 \o (IF rep = 0 /\ nlen # 1 /\ expiration # 0
                     THEN <<"WARNING: Inconsistent fields: retention_expires_present false with nlen != 1">>
                     ELSE <<>>)]

\* decodeColocatedBSSID that takes the number of addresses from the
\* MaxBSSIDIndicator octet instead of the length
decodeColocatedBSSIDbyIndicator(G, s, n, nlen) ==
    LET nBSSID == getoctet(s, n)
        list == [k \in 1 .. nBSSID |-> strndup(s, (n + 1 + 6 * (k - 1)) * 2, 6 * 2)]
    IN  [G |-> [G EXCEPT !.BSSIDS = list, !.bssid_index = nBSSID],
         nbyt |-> n + 1 + 6 * nBSSID, msg |-> <<>>]

\* n is nbyt after the ID and length octets
decodeColocatedBSSID(G, s, n, nlen) ==
    LET maxBSSIDindicator == getoctet(s, n)
        nBSSID == cdiv(nlen - 1, 6)
        list == [k \in 1 .. nBSSID |-> strndup(s, (n + 1 + 6 * (k - 1)) * 2, 6 * 2)]
        invalid == {k \in 1 .. nBSSID : ~isValidBSSID(list[k])}
    IN  [G |-> [G EXCEPT !.BSSIDS = list, !.bssid_index = nBSSID],
         nbyt |-> n + 1 + 6 * nBSSID,
         msg |-> (IF maxBSSIDindicator # 0
                  THEN <<"WARNING: maxBSSIDindicator != 0">> ELSE <<>>)
                 \o (IF maxBSSIDindicator # 0 /\ maxBSSIDindicator # nBSSID
                     THEN <<"WARNING: maxBSSIDindicator != (nlen-1)/6">> ELSE <<>>)
                 \o (IF invalid # {} THEN <<"ERROR: invalid BSSID">> ELSE <<>>)]

\* Skipped, were the skipping silent
SkippedSilently(G, n, rd, msg) ==
    [G |-> G, nbyt |-> n, brk |-> FALSE, rd |-> rd, msg |-> <<>>, codes |-> <<>>]

\* Skipped, were the cursor left on the subelement
SkippedInPlace(G, n, rd, msg) ==
    [G |-> G, nbyt |-> rd - 1, brk |-> FALSE, rd |-> rd, msg |-> msg, codes |-> <<>>]

\* what one iteration of decodeLCIstring's loop does with the cursor at n: the
\* globals and the cursor after it, whether it left the loop by break, the highest
\* octet index it read (it reads n .. rd), what it printed and the uncertainty
\* codes it read
Skipped(G, n, rd, msg) ==
    [G |-> G, nbyt |-> n, brk |-> FALSE, rd |-> rd, msg |-> msg, codes |-> <<>>]

decodeSubelement(G, s, n, sl) ==
    LET ID == getoctet(s, n)
        nlen == getoctet(s, n + 1)
        nb == n + 2
    IN  IF nb + nlen > sl
        THEN [G |-> G, nbyt |-> nb, brk |-> TRUE, rd |-> n + 1,
              msg |-> <<"ERROR: bad length code">>, codes |-> <<>>]
        ELSE IF ID = LCI_CODE
        THEN IF nlen = 0 THEN Skipped(G, nb, n + 1, <<>>)
             ELSE IF nlen # 16
             THEN Skipped(G, nb + nlen, n + 1, <<"ERROR: Unexpected length for LCI element">>)
             ELSE CHOOSE v \in {[G |-> r.G, nbyt |-> nb + r.indx \div 8, brk |-> FALSE,
                                  rd |-> nb + 15, msg |-> r.msg, codes |-> r.codes] :
                                 r \in {decodeLCIfield(G, Ptr(s, nb * 2))}} : TRUE
        ELSE IF ID = Z_CODE
        THEN LET m6 == IF nlen # 6 THEN <<"ERROR: Unexpected length for Z subelement">>
                       ELSE <<>>
             IN  IF nlen # 6 /\ nlen # 5 THEN Skipped(G, nb + nlen, n + 1, m6)
                 ELSE LET r == decodeZ(G, s, nb, nlen)
                      IN  [G |-> r.G, nbyt |-> r.nbyt, brk |-> FALSE, rd |-> r.nbyt - 1,
                           msg |-> m6 \o r.msg, codes |-> r.codes]
        ELSE IF ID = USAGE_CODE
        THEN IF nlen # 1 /\ nlen # 3
             THEN Skipped(G, nb + nlen, n + 1,
                          <<"ERROR: Unexpected length for Usage Rules/Policy subelement">>)
             ELSE LET r == decodeUsage(G, s, nb, nlen)
                  IN  [G |-> r.G, nbyt |-> r.nbyt, brk |-> FALSE, rd |-> r.nbyt - 1,
                       msg |-> r.msg, codes |-> <<>>]
        ELSE IF ID = COLOCATED_BSSID
        THEN LET r == decodeColocatedBSSID(G, s, nb, nlen)
             IN  [G |-> r.G, nbyt |-> r.nbyt, brk |-> FALSE, rd |-> r.nbyt - 1,
                  msg |-> (IF (nlen - 1) % 6 # 0 THEN <<"ERROR: length">> ELSE <<>>)
                          \o r.msg,
                  codes |-> <<>>]
        ELSE Skipped(G, nb + nlen, n + 1, <<"ERROR: Unrecognized subelement">>)

\* the globals after the loop of decodeLCIstring, entered with the cursor at n
RECURSIVE decodeLoop(_, _, _, _)
decodeLoop(G, s, n, sl) ==
    IF ~(n < sl /\ CharAt(s, n * 2) # NUL) THEN G
    ELSE LET r == decodeSubelement(G, s, n, sl)
         IN  IF r.brk THEN r.G ELSE decodeLoop(r.G, s, r.nbyt, sl)

\* the globals after decodeLCIstring(s), called when they are G
decodeLCIstring(G, s) == decodeLoop(G, s, 3, strlen(s) \div 2)

\* hextoint's message, printed when a char read in octets a .. b is no hex digit
HexErrors(s, a, b) ==
    IF \E k \in a .. b : BadHex(s, k)
    THEN <<"ERROR in conversion from hexadecimal char to int">> ELSE <<>>

---------------------------------------------------------------------------
(* The globals and the command line *)

\* lcistring = NULL
NULL == <<-1>>

\* the initializers of lines 117-183
Globals0 ==
    [checkflag |-> 0, smallestflag |-> 0,
     wantLCIflag |-> 1, wantZflag |-> 1, wantUsageflag |-> 1, wantColocatedflag |-> 1,
     sampleflag |-> 0,
     latitude |-> D0, longitude |-> D0, altitude |-> D0,
     latitude_uncertainty |-> U0, longitude_uncertainty |-> U0, altitude_uncertainty |-> U0,
     Altitude_Type |-> 1, datum |-> 1,
     RegLoc_Agreement |-> 0, RegLoc_DSE |-> 0, Dependent_STA |-> 0,
     LCI_version |-> LCI_VERSION_1,
     expected_to_move |-> 0,
     sta_floor |-> D0, sta_height_above_floor |-> D0,
     sta_height_above_floor_uncertainty |-> U0,
     retransmission_allowed |-> 1, retention_expires_present |-> 0,
     STA_location_policy |-> 0, expiration |-> 0,
     lcistring |-> NULL, bssid_index |-> 0, max_bssids |-> 10, BSSIDS |-> <<>>]

\* !flag
Not(x) == IF x = 0 THEN 1 ELSE 0

\* one argument of the command line: the globals after commandline's loop has
\* handled it, and what it printed
commandlineArg(G, a) ==
    LET set(H) == [G |-> H, msg |-> <<>>]
    IN  CASE a.opt = "-c" -> set([G EXCEPT !.checkflag = Not(@)])
          [] a.opt = "-smallest" -> set([G EXCEPT !.smallestflag = Not(@)])
          [] a.opt = "-sample" -> set([G EXCEPT !.sampleflag = Not(@)])
          [] a.opt = "-lci=" -> set([G EXCEPT !.lcistring = a.s])
          [] a.opt = "-lat=" -> set([G EXCEPT !.latitude = a.d])
          [] a.opt = "-lon=" -> set([G EXCEPT !.longitude = a.d])
          [] a.opt = "-alt=" -> set([G EXCEPT !.altitude = a.d])
          [] a.opt = "-latunc=" -> set([G EXCEPT !.latitude_uncertainty = a.u])
          [] a.opt = "-lonunc=" -> set([G EXCEPT !.longitude_uncertainty = a.u])
          [] a.opt = "-altunc=" -> set([G EXCEPT !.altitude_uncertainty = a.u])
          [] a.opt = "-floor=" -> set([G EXCEPT !.sta_floor = a.d])
          [] a.opt = "-height=" -> set([G EXCEPT !.sta_height_above_floor = a.d])
          [] a.opt = "-heightunc=" ->
                set([G EXCEPT !.sta_height_above_floor_uncertainty = a.u])
          [] a.opt = "-BSSID=" -> extractBSSID(G, a.s)
          [] a.opt = "-altitude_type=" -> set([G EXCEPT !.Altitude_Type = a.n])
          [] a.opt = "-datum=" -> set([G EXCEPT !.datum = a.n])
          [] a.opt = "-expiration=" ->
                set([G EXCEPT !.expiration = a.n, !.retention_expires_present = 1])
          [] a.opt = "-version=" -> set([G EXCEPT !.LCI_version = a.n])
          [] a.opt = "-movable" -> set([G EXCEPT !.expected_to_move = Not(@)])
          [] a.opt = "-Retransmission_Allowed" ->
                set([G EXCEPT !.retransmission_allowed = Not(@)])
          [] a.opt = "-Retention_Expires_Present" ->
                set([G EXCEPT !.retention_expires_present = Not(@)])
          [] a.opt = "-STA_Location_Policy" ->
                set([G EXCEPT !.STA_location_policy = Not(@)])
          [] a.opt = "-RegLoc_Agreement" -> set([G EXCEPT !.RegLoc_Agreement = Not(@)])
          [] a.opt = "-RegLoc_DSE" -> set([G EXCEPT !.RegLoc_DSE = Not(@)])
          [] a.opt = "-Dependent_STA" -> set([G EXCEPT !.Dependent_STA = Not(@)])
          [] a.opt = "-want_LCI" -> set([G EXCEPT !.wantLCIflag = Not(@)])
          [] a.opt = "-want_Z" -> set([G EXCEPT !.wantZflag = Not(@)])
          [] a.opt = "-want_Usage" -> set([G EXCEPT !.wantUsageflag = Not(@)])
          [] a.opt = "-want_Colocated" -> set([G EXCEPT !.wantColocatedflag = Not(@)])
          [] OTHER -> [G |-> G, msg |-> <<"ERROR: argument">>]

RECURSIVE commandlineLoop(_, _, _, _)
commandlineLoop(G, argv, firstarg, msg) ==
    IF firstarg > Len(argv) THEN [G |-> G, msg |-> msg]
    ELSE LET r == commandlineArg(G, argv[firstarg])
         IN  IF Evaluated(r) THEN commandlineLoop(r.G, argv, firstarg + 1, msg \o r.msg)
             ELSE r

commandline(G, argv) ==
    LET r == commandlineLoop(G, argv, 1, <<>>)
    IN  [G |-> r.G, msg |-> r.msg \o checksettings(r.G)]

\* "010008001052834d12efd2b08b9b4bf1cc2c0000410406000000000012060101"
lci2 ==
    <<48, 49, 48, 48, 48, 56, 48, 48, 49, 48, 53, 50, 56, 51, 52, 100,
      49, 50, 101, 102, 100, 50, 98, 48, 56, 98, 57, 98, 52, 98, 102, 49,
      99, 99, 50, 99, 48, 48, 48, 48, 52, 49, 48, 52, 48, 54, 48, 48,
      48, 48, 48, 48, 48, 48, 48, 48, 49, 50, 48, 54, 48, 49, 48, 49>>

\* the globals as encode_Sydney_Opera_House sets them before it calls
\* encodeLCIstring: latitude -33.8570095 is (-1136052723 + 0.0089) / 2^25,
\* longitude 151.2152005 is (5073940162 + 0.54) / 2^25, altitude 11.2 is
\* (2867 + 0.2) / 2^8; log2 of the uncertainties 0.0007105, 0.0007055, 33.7 and
\* 0.0078125 is -11 + 0.54, -11 + 0.53, 5 + 0.07 and -7
encode_Sydney_Opera_House(G) ==
    [G EXCEPT !.latitude = [hi |-> -8668, lo |-> 79373, fr |-> 1],
              !.longitude = [hi |-> 38711, lo |-> 11970, fr |-> 3],
              !.altitude = [hi |-> 0, lo |-> 2867, fr |-> 1],
              !.latitude_uncertainty = [sgn |-> 1, e |-> -11, f |-> 2],
              !.longitude_uncertainty = [sgn |-> 1, e |-> -11, f |-> 2],
              !.altitude_uncertainty = [sgn |-> 1, e |-> 5, f |-> 2],
              !.expected_to_move = 0,
              !.sta_floor = D0,
              !.sta_height_above_floor = D0,
              !.sta_height_above_floor_uncertainty = [sgn |-> 1, e |-> -7, f |-> 0]]

\* the calls do_Sydney_Opera makes (lines 1024-1036), in order
do_Sydney_Opera ==
    <<"decodeLCIstring(lci2)", "encode_Sydney_Opera_House", "decodeLCIstring(str)">>

\* the calls main() makes after commandline (lines 1241-1267), in order
mainCalls(G) ==
    IF G.lcistring # NULL
    THEN <<"decodeLCIstring(lcistring)">>
         \o (IF G.checkflag # 0 THEN <<"encodeLCIstring">> ELSE <<>>)
    ELSE IF \/ G.latitude # D0 \/ G.longitude # D0 \/ G.altitude # D0
            \/ G.sta_floor # D0 \/ G.sta_height_above_floor # D0
            \/ G.sta_height_above_floor_uncertainty.sgn # 0
            \/ G.bssid_index > 0
    THEN <<"encodeLCIstring">>
         \o (IF G.checkflag # 0 THEN <<"decodeLCIstring(str)">> ELSE <<>>)
    ELSE IF G.sampleflag # 0 THEN do_Sydney_Opera
    ELSE <<>>

---------------------------------------------------------------------------
(* The command lines the model is run with *)

\* the small integers -MaxSmall .. MaxSmall are tried in every fixed-point field
MaxSmall == 2

\* a crafted -lci= string is also tried with its last 1 .. MaxCut chars cut off
MaxCut == 3

\* a fixed-point field of w bits (w > 17) holds k = hi * 2^17 + lo for these
\* [hi, lo]: the small integers, the limb boundaries and the ends of the signed range
FieldValues(w) ==
    {IntToLL(k) : k \in -MaxSmall .. MaxSmall}
    \cup {[hi |-> 0, lo |-> LIMB - 1], [hi |-> 1, lo |-> 0],
          [hi |-> -1, lo |-> 0], [hi |-> -2, lo |-> LIMB - 1]}
    \cup {[hi |-> -(2 ^ (w - 18)), lo |-> 0], [hi |-> -(2 ^ (w - 18)), lo |-> 1],
          [hi |-> 2 ^ (w - 18) - 1, lo |-> LIMB - 1],
          [hi |-> 2 ^ (w - 18) - 1, lo |-> LIMB - 2]}

\* the floors k/16 tried: small ones and the ends of the signed 14-bit range
FloorValues ==
    {IntToLL(k) : k \in ((-MaxSmall .. MaxSmall) \cup {-8192, -8191, 8190, 8191})}

\* an argument of the command line: its option and the value sscanf_s reads from
\* it, a double (d), an uncertainty (u), an int (n), or the string itself (s)
Flag(o) == [opt |-> o, d |-> D0, u |-> U0, n |-> 0, s |-> <<>>]

ArgD(o, v) == [Flag(o) EXCEPT !.d = v]

ArgU(o, v) == [Flag(o) EXCEPT !.u = v]

ArgN(o, v) == [Flag(o) EXCEPT !.n = v]

ArgS(o, v) == [Flag(o) EXCEPT !.s = v]

\* with and without -c
WithCheck(lists) == lists \cup {l \o <<Flag("-c")>> : l \in lists}

One == Dbl(IntToLL(1))

LatLonArgs ==
    {<<ArgD("-lat=", Dbl(x)), Flag("-c")>> : x \in FieldValues(34)}
    \cup {<<ArgD("-lon=", Dbl(x)), Flag("-c")>> : x \in FieldValues(34)}
    \cup WithCheck({<<ArgD("-lat=", Dbl(IntToLL(-MaxSmall))), ArgD("-lon=", Dbl(IntToLL(MaxSmall)))>>})

AltArgs == {<<ArgD("-alt=", Dbl(x)), Flag("-c")>> : x \in FieldValues(30)}

ZArgs ==
    {<<ArgD("-floor=", Dbl(x)), Flag("-c")>> : x \in FloorValues}
    \cup {<<Flag("-movable"), ArgD("-floor=", Dbl(x)), Flag("-c")>> : x \in FloorValues}
    \cup {<<ArgD("-height=", Dbl(x)), Flag("-c")>> : x \in FieldValues(24)}

\* the uncertainties tried in a field of binary point m: 2^(m-c) for the codes c,
\* values between two powers of two, zero and a negative value
UncValues(m) ==
    {decodebinarydot(c, m) : c \in 0 .. MAX_LCI_UNCERTAINTY + 1}
    \cup {[sgn |-> 1, e |-> m - c, f |-> f] : c \in {1, MaxSmall}, f \in {1, 2}}
    \cup {U0, [sgn |-> -1, e |-> 0, f |-> 0]}

UncArgs ==
    {<<ArgD("-lat=", One), ArgU("-latunc=", u), Flag("-c")>> : u \in UncValues(encodeLatLonPoint)}
    \cup {<<ArgD("-lat=", One), ArgU("-lonunc=", u), Flag("-c")>> : u \in UncValues(encodeLatLonPoint)}
    \cup {<<ArgD("-lat=", One), ArgU("-altunc=", u), Flag("-c")>> : u \in UncValues(encodeAltitudePoint)}
    \cup {<<ArgD("-lat=", One), ArgU("-heightunc=", u), Flag("-c")>> : u \in UncValues(11)}
    \cup {<<Flag("-smallest"), ArgD("-lat=", One), Flag("-c")>>}

UsageArgs ==
    {<<ArgD("-lat=", One), Flag(o), Flag("-c")>> :
        o \in {"-Retransmission_Allowed", "-Retention_Expires_Present",
               "-STA_Location_Policy", "-RegLoc_Agreement", "-RegLoc_DSE",
               "-Dependent_STA", "-bogus"}}
    \cup {<<ArgD("-lat=", One), ArgN("-expiration=", e), Flag("-c")>> : e \in {0, MaxSmall, 65535}}
    \cup {<<ArgD("-lat=", One), ArgN("-expiration=", e), Flag("-Retention_Expires_Present"),
             Flag("-c")>> : e \in {0, MaxSmall, 256}}
    \cup {<<ArgD("-lat=", One), ArgN(o, MaxSmall), Flag("-c")>> :
            o \in {"-altitude_type=", "-datum=", "-version="}}

\* the argument that commandline hands to extractBSSID begins with "-BSSID="
BSSIDarg == <<45, 66, 83, 83, 73, 68, 61>>

Comma == <<44>>

Mac12 == <<48, 48, 49, 49, 50, 50, 97, 97, 98, 98, 99, 99>>

Mac17 == <<48, 49, 58, 50, 51, 58, 52, 53, 58, 54, 55, 58, 56, 57, 58, 65, 66>>

BSSIDArgs ==
    {<<ArgS("-BSSID=", BSSIDarg \o b), Flag("-c")>> :
        b \in {Mac12, Comma \o Mac12, Comma \o Mac17, Comma \o Mac12 \o Comma \o Mac17,
               Comma \o Mac12 \o Comma, Comma \o <<48>>}}

\* every combination of the four include flags, for a record with a BSSID
WantArgs ==
    {<<ArgD("-lat=", One), ArgS("-BSSID=", BSSIDarg \o Comma \o Mac12)>> \o w \o <<Flag("-c")>> :
        w \in {SubSeq(<<Flag("-want_LCI")>>, 1, a) \o SubSeq(<<Flag("-want_Z")>>, 1, b)
               \o SubSeq(<<Flag("-want_Usage")>>, 1, c)
               \o SubSeq(<<Flag("-want_Colocated")>>, 1, d) :
                  a \in 0 .. 1, b \in 0 .. 1, c \in 0 .. 1, d \in 0 .. 1}}
    \cup {<<ArgD("-lat=", One), Flag("-want_Colocated")>>, <<>>}

\* the hex string of a sequence of octets
HexOf(octs) ==
    [i \in 1 .. 2 * Len(octs) |->
        IF i % 2 = 1 THEN inttohex(octs[(i + 1) \div 2] \div 16)
        ELSE inttohex(octs[i \div 2] % 16)]

\* the 16 octets of an LCI subelement that holds the three uncertainty codes
LCIpayload(cLat, cLon, cAlt) ==
    putfields([i \in 1 .. 32 |-> 48], 0,
              << <<6, IntToLL(cLat)>>, <<34, IntToLL(-MaxSmall)>>,
                 <<6, IntToLL(cLon)>>, <<34, IntToLL(MaxSmall)>>,
                 <<4, IntToLL(1)>>, <<6, IntToLL(cAlt)>>, <<30, IntToLL(-MaxSmall)>>,
                 <<3, IntToLL(1)>>, <<3, LL0>>, <<2, IntToLL(LCI_VERSION_1)>> >>, 1)

Hdr == HexOf(<<MEASURE_TOKEN, MEASURE_REQUEST_MODE, LCI_TYPE>>)

LCIelements ==
    {HexOf(<<LCI_CODE, 16>>) \o LCIpayload(c[1], c[2], c[3]) :
        c \in {<<0, 0, 0>>, <<1, 1, 1>>, <<MAX_LCI_UNCERTAINTY, MAX_LCI_UNCERTAINTY, MAX_LCI_UNCERTAINTY>>,
               <<MAX_LCI_UNCERTAINTY + 1, 1, 1>>, <<1, MAX_LCI_UNCERTAINTY + 1, 1>>,
               <<1, 1, MAX_LCI_UNCERTAINTY + 1>>, <<63, 63, 63>>}}

Zelements ==
    {HexOf(<<Z_CODE, 6, 0, 5, 0, 0, 3, u>>) :
        u \in {0, 1, MAX_Z_UNCERTAINTY, MAX_Z_UNCERTAINTY + 1, 255}}
    \cup {HexOf(<<Z_CODE, 5, 0, 5, 0, 3, u>>) : u \in {0, 1, MAX_Z_UNCERTAINTY + 1}}
    \cup {HexOf(<<Z_CODE, 6, 255, 255, 255, 255, 255, 1>>)}

\* subelements of a length the decoder does not take, or of an ID it does not know
OddElements ==
    {HexOf(o) : o \in {<<Z_CODE, 2, 170, 187>>, <<LCI_CODE, 3, 1, 2, 3>>, <<LCI_CODE, 0>>,
                       <<USAGE_CODE, 2, 1, 1>>, <<5, 2, 170, 187>>, <<5, 0>>}}

UsageElements == {HexOf(o) : o \in {<<USAGE_CODE, 1, 1>>, <<USAGE_CODE, 3, 3, 0, MaxSmall>>,
                                    <<USAGE_CODE, 3, 1, 0, MaxSmall>>, <<USAGE_CODE, 1, 7>>}}

ColocatedElements ==
    {HexOf(o) : o \in {<<COLOCATED_BSSID, 0>>, <<COLOCATED_BSSID, 1, 0>>,
                       <<COLOCATED_BSSID, 3, 0, 170, 187>>,
                       <<COLOCATED_BSSID, 7, 0, 0, 17, 34, 170, 187, 204>>,
                       <<COLOCATED_BSSID, 7, 1, 0, 17, 34, 170, 187, 204>>,
                       <<COLOCATED_BSSID, 13, 0, 0, 17, 34, 170, 187, 204, 1, 2, 3, 4, 5, 6>>}}
    \cup {HexOf(<<COLOCATED_BSSID, 7, 0>>) \o <<65, 65, 66, 66, 67, 67, 68, 68, 69, 69, 70, 70>>}

Elements == LCIelements \cup Zelements \cup OddElements \cup UsageElements \cup ColocatedElements

\* a later subelement, to see whether the decoder still finds it
Later == HexOf(<<USAGE_CODE, 1, 0>>)

Cut(s, k) == SubSeq(s, 1, Len(s) - k)

\* the strings given with -lci=
LCIstrings ==
    {Hdr \o x : x \in Elements}
    \cup {Hdr \o x \o Later : x \in Elements}
    \cup {Cut(Hdr \o x, k) : x \in Zelements \cup OddElements \cup ColocatedElements,
                             k \in 1 .. MaxCut}
    \cup {Cut(Hdr, k) : k \in 0 .. 6}
    \cup {Hdr \o HexOf(<<USAGE_CODE>>), Hdr \o HexOf(<<USAGE_CODE, 1>>),
          HexOf(<<2, 0, 8>>) \o Later, <<48, 103>> \o Cut(Hdr, 2) \o Later,
          Hdr \o <<48, 54, 48, 49, 48, 71>>}
    \cup {Hdr \o HexOf(<<Z_CODE, 6, 0, 5, 0, 0, 3, 1>>) \o z :
            z \in {HexOf(<<Z_CODE, 6, 0, 4, 0, 0, 3, 0>>), HexOf(<<Z_CODE, 5, 0, 4, 0, 3, 0>>)}}
    \cup {Hdr \o HexOf(<<LCI_CODE, 16>>) \o LCIpayload(1, MaxSmall, MAX_LCI_UNCERTAINTY)
              \o HexOf(<<LCI_CODE, 16>>) \o LCIpayload(0, 0, 0)}

\* a Colocated BSSID subelement of one address whose MaxBSSIDIndicator is ind
OneBSSID(ind) == HexOf(<<COLOCATED_BSSID, 7, ind, 1, 2, 3, 4, 5, 6>>)

TwoBSSIDs == HexOf(<<COLOCATED_BSSID, 13, 0, 0, 17, 34, 170, 187, 204, 1, 2, 3, 4, 5, 6>>)

\* strings decoded when the list of BSSIDs already holds addresses
RepeatedColocated ==
    {Hdr \o TwoBSSIDs \o x : x \in {OneBSSID(0), OneBSSID(1), OneBSSID(5),
                                     HexOf(<<COLOCATED_BSSID, 1, 0>>)}}

\* a Colocated BSSID subelement of N addresses
ManyBSSIDs(N) ==
    HexOf(<<COLOCATED_BSSID, 1 + 6 * N, 0>>) \o HexOf([i \in 1 .. 6 * N |-> (i - 1) \div 6 + 1])

\* as many addresses as the array of BSSIDs holds at first, and one more
ManyBSSIDsArgs ==
    {<<ArgS("-lci=", Hdr \o ManyBSSIDs(N) \o Later)>> : N \in {Globals0.max_bssids + 1, Globals0.max_bssids + MaxSmall}}
    \cup {<<ArgS("-lci=", Hdr \o ManyBSSIDs(Globals0.max_bssids + MaxSmall) \o Later), Flag("-c")>>}

DecodeArgs ==
    {<<ArgS("-lci=", s)>> : s \in LCIstrings \cup RepeatedColocated}
    \cup {<<ArgS("-lci=", Hdr \o x \o Later), Flag("-c")>> : x \in Elements}
    \cup {<<ArgS("-BSSID=", BSSIDarg \o Comma \o Mac12 \o Comma \o Mac17),
             ArgS("-lci=", Hdr \o OneBSSID(0))>>,
           <<ArgD("-lat=", One), ArgS("-lci=", Hdr \o Later)>>}

\* the example is run when nothing else is asked for
SampleArgs ==
    {<<Flag("-sample")>>,
     <<Flag("-movable"), Flag("-Retransmission_Allowed"), Flag("-smallest"), Flag("-sample")>>,
     <<Flag("-sample"), ArgD("-lat=", One)>>}

\* values that are no multiple of the unit of their field: k + d units for
\* 0 < d < 1/2 (fr 1), d = 1/2 (fr 2) and 1/2 < d < 1 (fr 3), k = 0, 1 and -1
Fractions == {[hi |-> k.hi, lo |-> k.lo, fr |-> f] : k \in {LL0, IntToLL(1), IntToLL(-1)},
                                                     f \in 1 .. 3}

RoundArgs ==
    {<<ArgD(o, x), Flag("-c")>> : o \in {"-lat=", "-lon=", "-alt=", "-floor=", "-height="},
                                  x \in Fractions}

ArgLists ==
    LatLonArgs \cup AltArgs \cup ZArgs \cup UncArgs \cup UsageArgs \cup BSSIDArgs
    \cup WantArgs \cup DecodeArgs \cup SampleArgs \cup RoundArgs \cup ManyBSSIDsArgs

\* what a read outside an array may find
JunkChars == {NUL, 102}

---------------------------------------------------------------------------
(* main() *)

\* the invocations that the second specification interleaves
Invocations == {1, 2}

\* main() makes its calls one after the other: no second invocation is running
NoInvocation ==
    [k \in Invocations |->
        [op |-> "none", str |-> <<>>, nbyt |-> 0, slen |-> 0, pc |-> "idle",
         ret |-> <<>>, out |-> <<>>]]

\* putbits has not been called
NoField == [bstart |-> 0, nlen |-> 0, val |-> LL0, old |-> <<>>, puts |-> 0]

Init ==
    /\ g = Globals0
    /\ str = <<>>
    /\ junk \in JunkChars
    /\ pc = "start"
    /\ todo = <<>>
    /\ nbyt = 0
    /\ slen = 0
    /\ diag = <<>>
    /\ mark = 0
    /\ maxread = -1
    /\ subs = <<>>
    /\ g0 = Globals0
    /\ called = <<>>
    /\ inv = NoInvocation
    /\ bf = NoField
    /\ heap = "ok"

\* firstarg = commandline(argc, argv)
CommandlineFrom(lists) ==
    /\ pc = "start"
    /\ \E argv \in lists :
          LET r == commandline(g, argv)
          IN  /\ g' = r.G
              /\ diag' = r.msg
              /\ todo' = mainCalls(r.G)
    /\ pc' = "main"
    /\ UNCHANGED <<str, junk, nbyt, slen, mark, maxread, subs, g0, called, inv, bf, heap>>

Commandline == CommandlineFrom(ArgLists)

\* the loop condition of decodeLCIstring
InLoop == nbyt < slen /\ CharAt(str, nbyt * 2) # NUL

\* decodeLCIstring up to its loop: the header
CallDecode ==
    /\ pc = "main" /\ todo # <<>>
    /\ Head(todo) \in {"decodeLCIstring(lcistring)", "decodeLCIstring(lci2)",
                       "decodeLCIstring(str)"}
    /\ LET s == IF Head(todo) = "decodeLCIstring(lcistring)" THEN g.lcistring \o <<NUL>>
                ELSE IF Head(todo) = "decodeLCIstring(lci2)" THEN lci2 \o <<NUL>>
                ELSE str
           a == getoctet(s, 0)
           b == getoctet(s, 1)
           c == getoctet(s, 2)
       IN  /\ str' = s
           /\ slen' = strlen(s) \div 2
           /\ diag' = diag \o HexErrors(s, 0, 2)
                      \o (IF a # MEASURE_TOKEN \/ b # MEASURE_REQUEST_MODE \/ c # LCI_TYPE
                          THEN <<"ERROR: Bad Measurement Element Type">> ELSE <<>>)
    /\ mark' = Len(diag)
    /\ nbyt' = 3
    /\ maxread' = 2
    /\ subs' = <<>>
    /\ pc' = "decode"
    /\ UNCHANGED <<g, junk, todo, g0, called, inv, bf, heap>>

\* BSSIDS has max_bssids + 1 slots (initialize_arrays, extractBSSID): more
\* addresses than that have been stored past its end
Overrun(G) == G.bssid_index > G.max_bssids + 1

\* one iteration of the loop of decodeLCIstring
DecodeLoop ==
    /\ pc = "decode" /\ InLoop
    /\ \E r \in {decodeSubelement(g, str, nbyt, slen)} :
           /\ g' = r.G
           /\ nbyt' = r.nbyt
           /\ pc' = IF r.brk THEN "break" ELSE "decode"
           /\ maxread' = Max(maxread, r.rd)
           /\ diag' = diag \o HexErrors(str, nbyt, r.rd) \o r.msg
           /\ subs' = Append(subs, [at |-> nbyt, ID |-> getoctet(str, nbyt),
                                    nlen |-> getoctet(str, nbyt + 1), next |-> r.nbyt,
                                    brk |-> r.brk, codes |-> r.codes])
           /\ heap' = IF Overrun(r.G) THEN "overrun" ELSE heap
    /\ UNCHANGED <<str, junk, todo, slen, mark, g0, called, inv, bf>>

\* decodeLCIstring after its loop
DecodeReturn ==
    /\ pc = "break" \/ (pc = "decode" /\ ~InLoop)
    /\ diag' = diag \o checksettings(g)
    /\ pc' = "main"
    /\ called' = Append(called, Head(todo))
    /\ todo' = Tail(todo)
    /\ UNCHANGED <<g, str, junk, nbyt, slen, mark, maxread, subs, g0, inv, bf, heap>>

\* str = encodeLCIstring(), or str = encode_Sydney_Opera_House()
CallEncode ==
    /\ pc = "main" /\ todo # <<>>
    /\ Head(todo) \in {"encodeLCIstring", "encode_Sydney_Opera_House"}
    /\ LET G == IF Head(todo) = "encodeLCIstring" THEN g ELSE encode_Sydney_Opera_House(g)
           r == encodeLCIstring(G)
       IN  /\ g' = r.G
           /\ str' = r.str
           /\ nbyt' = r.nbyt
           /\ diag' = diag \o r.msg
           /\ g0' = G
    /\ mark' = Len(diag)
    /\ called' = Append(called, Head(todo))
    /\ todo' = Tail(todo)
    /\ UNCHANGED <<junk, pc, slen, maxread, subs, inv, bf, heap>>

\* freeColocatedBSSIDs(); return 0
Exit ==
    /\ pc = "main" /\ todo = <<>>
    /\ g' = [g EXCEPT !.BSSIDS = <<>>]
    /\ pc' = "done"
    /\ UNCHANGED <<str, junk, todo, nbyt, slen, diag, mark, maxread, subs, g0, called, inv, bf, heap>>

\* the write past the array is undefined behaviour: main() may go on as if nothing
\* had happened, or its next call of malloc (encodeLCIstring) or free
\* (freeColocatedBSSIDs) finds the heap corrupted and aborts
Abort ==
    /\ heap = "overrun" /\ pc = "main"
    /\ pc' = "abort"
    /\ UNCHANGED <<g, str, junk, todo, nbyt, slen, diag, mark, maxread, subs, g0, called, inv, bf, heap>>

Next ==
    Commandline \/ CallDecode \/ DecodeLoop \/ DecodeReturn \/ CallEncode \/ Exit \/ Abort

Spec == Init /\ [][Next]_vars

---------------------------------------------------------------------------
(* Properties *)

TwoTo(e) == [sgn |-> 1, e |-> e, f |-> 0]

\* encodeLCIstring has run: str is its string and g0 the record it encoded
Encoded ==
    \E i \in 1 .. Len(called) : called[i] \in {"encodeLCIstring", "encode_Sydney_Opera_House"}

\* main() has encoded the record g0 and decoded the string again, into g
EncodedThenDecoded == called = <<"encodeLCIstring", "decodeLCIstring(str)">>

\* x is k / 2^m for an integer k of the signed w-bit range (w > 17)
InSigned(x, w) == x.fr = 0 /\ x.hi >= -(2 ^ (w - 18)) /\ x.hi < 2 ^ (w - 18)

\* the uncertainty u is 2^(m-c) for a code c of 1 .. max
IsCodeValue(u, m, max) == u.sgn = 1 /\ u.f = 0 /\ m - u.e >= 1 /\ m - u.e <= max

\* the subelement IDs of the element s, read from octet n on by the length octets
RECURSIVE SubelementIDs(_, _)
SubelementIDs(s, n) ==
    IF 2 * n + 3 >= Len(s) THEN IF 2 * n + 1 < Len(s) THEN <<getoctet(s, n)>> ELSE <<>>
    ELSE <<getoctet(s, n)>> \o SubelementIDs(s, n + 2 + getoctet(s, n + 1))

EmittedIDs == SubelementIDs(CString(str), 3)

StrictlyAscending(q) == \A i \in 1 .. Len(q) - 1 : q[i] < q[i + 1]

\* encodeLCIstring wrote a subelement after the header
SomeEmitted ==
    \/ g0.wantLCIflag # 0
    \/ g0.wantZflag # 0
    \/ (g0.wantColocatedflag # 0 /\ needBSSIDflag(g0))
    \/ (g0.wantUsageflag # 0 /\ needUsageFlag(g0))

\* the uncertainty codes of the last subelement ID that the loop has decoded
LastCodes(ID) ==
    LET I == {i \in 1 .. Len(subs) : subs[i].ID = ID /\ subs[i].codes # <<>>}
    IN  IF I = {} THEN <<>> ELSE subs[CHOOSE i \in I : \A j \in I : j <= i].codes

\* the 6-bit code at bit b of the LCI subelement that follows the header of str
EncodedCode(b) == LLtoInt(getbits(Ptr(str, 5 * 2), b, 6))

\* C1: in the string of encodeLCIstring the subelement IDs are strictly ascending
\* (0, 4, 6, 7), for every combination of the include flags and every record
C1_AscendingIDs == (Encoded /\ SomeEmitted) => StrictlyAscending(EmittedIDs)

\* C2: decodeLCIstring reads no octet at an index >= slen
C2_NoReadPastBuffer == pc \in {"decode", "break"} => maxread < slen

\* C3: after every subelement whose header and declared payload lie in the buffer
\* the loop resumes at header offset + 2 + length
C3_ResumesAfterPayload ==
    \A i \in 1 .. Len(subs) :
        ~subs[i].brk => subs[i].next = subs[i].at + 2 + subs[i].nlen

\* C4: a latitude and a longitude k/2^25, k of the signed 34-bit range, are the
\* same after encodeLCIfield and the decoding of its subelement
C4_LatLonRoundTrip ==
    (/\ EncodedThenDecoded /\ g0.wantLCIflag # 0
     /\ InSigned(g0.latitude, 34) /\ InSigned(g0.longitude, 34))
    => (g.latitude = g0.latitude /\ g.longitude = g0.longitude)

C4_Witness ==
    /\ EncodedThenDecoded /\ g0.wantLCIflag # 0
    /\ g0.latitude.hi = -(2 ^ 16) /\ g.latitude = g0.latitude

\* C5: an altitude k/2^8, k of the signed 30-bit range, is the same after
\* encodeLCIfield and the decoding of its subelement
C5_AltitudeRoundTrip ==
    (EncodedThenDecoded /\ g0.wantLCIflag # 0 /\ InSigned(g0.altitude, 30))
    => g.altitude = g0.altitude

\* C6: expected_to_move of 0..3, a floor k/16 of the signed 14-bit range and a
\* height k/4096 of the signed 24-bit range are the same after encodeZfield and
\* the decoding of its subelement
C6_ZRoundTrip ==
    (/\ EncodedThenDecoded /\ g0.wantZflag # 0
     /\ g0.expected_to_move \in 0 .. 3
     /\ g0.sta_floor.fr = 0 /\ LLtoInt(g0.sta_floor) \in -8192 .. 8191
     /\ InSigned(g0.sta_height_above_floor, 24))
    => /\ g.expected_to_move = g0.expected_to_move
       /\ g.sta_floor = g0.sta_floor
       /\ g.sta_height_above_floor = g0.sta_height_above_floor

\* the binary points m for which the round trip of a code is tried
MaxPoint == 25

\* C7: encodebinarydot(decodebinarydot(c, m), m) = c for every binary point m and
\* every code c of 1 .. 34, and an uncertainty 2^(m-c) with c up to the maximum of
\* its field (34, for the height 24) is the same after encoding and decoding
C7_CodeRoundTrip ==
    /\ \A m \in 0 .. MaxPoint : \A c \in 1 .. MAX_LCI_UNCERTAINTY :
          encodebinarydot(decodebinarydot(c, m), m).res = c
    /\ (EncodedThenDecoded /\ g0.wantLCIflag # 0) =>
          /\ IsCodeValue(g0.latitude_uncertainty, encodeLatLonPoint, MAX_LCI_UNCERTAINTY)
                => g.latitude_uncertainty = g0.latitude_uncertainty
          /\ IsCodeValue(g0.longitude_uncertainty, encodeLatLonPoint, MAX_LCI_UNCERTAINTY)
                => g.longitude_uncertainty = g0.longitude_uncertainty
          /\ IsCodeValue(g0.altitude_uncertainty, encodeAltitudePoint, MAX_LCI_UNCERTAINTY)
                => g.altitude_uncertainty = g0.altitude_uncertainty
    /\ (/\ EncodedThenDecoded /\ g0.wantZflag # 0
        /\ IsCodeValue(g0.sta_height_above_floor_uncertainty, 11, MAX_Z_UNCERTAINTY))
          => g.sta_height_above_floor_uncertainty = g0.sta_height_above_floor_uncertainty

C7_Witness ==
    /\ EncodedThenDecoded /\ g0.wantLCIflag # 0
    /\ g0.longitude_uncertainty = TwoTo(encodeLatLonPoint - MAX_LCI_UNCERTAINTY)
    /\ g.longitude_uncertainty = g0.longitude_uncertainty

\* the LCI uncertainty codes stand for 2^(mLL - c) in the latitude and longitude
\* field and 2^(mAlt - c) in the altitude field, in the encoder and in the decoder
CodeMeans(mLL, mAlt) ==
    /\ (Encoded /\ g0.wantLCIflag # 0) =>
          /\ IsCodeValue(g0.latitude_uncertainty, mLL, MAX_LCI_UNCERTAINTY)
                => g0.latitude_uncertainty = TwoTo(mLL - EncodedCode(0))
          /\ IsCodeValue(g0.longitude_uncertainty, mLL, MAX_LCI_UNCERTAINTY)
                => g0.longitude_uncertainty = TwoTo(mLL - EncodedCode(40))
          /\ IsCodeValue(g0.altitude_uncertainty, mAlt, MAX_LCI_UNCERTAINTY)
                => g0.altitude_uncertainty = TwoTo(mAlt - EncodedCode(84))
    /\ LET c == LastCodes(LCI_CODE)
       IN  (c # <<>> /\ ~Encoded) =>
              /\ c[1] \in 1 .. MAX_LCI_UNCERTAINTY
                    => g.latitude_uncertainty = TwoTo(mLL - c[1])
              /\ c[2] \in 1 .. MAX_LCI_UNCERTAINTY
                    => g.longitude_uncertainty = TwoTo(mLL - c[2])
              /\ c[3] \in 1 .. MAX_LCI_UNCERTAINTY
                    => g.altitude_uncertainty = TwoTo(mAlt - c[3])

\* C8 (as stated): a code c stands for 2^(m-c) with m = 25 for the latitude and
\* the longitude uncertainty and m = 21 for the altitude uncertainty, in encode
\* and in decode
C8_AsStated == CodeMeans(25, 21)

\* C8 (amended): a code c stands for 2^(m-c) with m = 8 for the latitude and the
\* longitude uncertainty and m = 21 for the altitude uncertainty, in encode and
\* in decode
C8_BinaryPoints == CodeMeans(8, 21)

C8_Witness ==
    /\ ~Encoded /\ LastCodes(LCI_CODE) = <<1, MaxSmall, MAX_LCI_UNCERTAINTY>>
    /\ g.longitude_uncertainty = TwoTo(8 - MaxSmall)
    /\ g.altitude_uncertainty = TwoTo(21 - MAX_LCI_UNCERTAINTY)

\* C9: a decoded code above the maximum of its field (34, for the height 24) is
\* reported and clamped: the decoded uncertainty is 2^(m-MAX)
C9_ClampedOnDecode ==
    ~Encoded =>
      /\ LET c == LastCodes(LCI_CODE)
         IN  c # <<>> =>
               /\ c[1] > MAX_LCI_UNCERTAINTY =>
                     g.latitude_uncertainty = TwoTo(decodeLatLonPoint - MAX_LCI_UNCERTAINTY)
               /\ c[2] > MAX_LCI_UNCERTAINTY =>
                     g.longitude_uncertainty = TwoTo(decodeLatLonPoint - MAX_LCI_UNCERTAINTY)
               /\ c[3] > MAX_LCI_UNCERTAINTY =>
                     g.altitude_uncertainty = TwoTo(decodeAltitudePoint - MAX_LCI_UNCERTAINTY)
      /\ LET z == LastCodes(Z_CODE)
         IN  (z # <<>> /\ z[1] > MAX_Z_UNCERTAINTY) =>
               g.sta_height_above_floor_uncertainty = TwoTo(11 - MAX_Z_UNCERTAINTY)

\* C10: code 0 decodes to the uncertainty 0 in the latitude, longitude and
\* altitude uncertainty of the LCI subelement and in the height uncertainty of
\* the Z subelement of 6 and of 5 octets
C10_CodeZeroIsZero ==
    ~Encoded =>
      /\ LET c == LastCodes(LCI_CODE)
         IN  c # <<>> =>
               /\ c[1] = 0 => g.latitude_uncertainty = U0
               /\ c[2] = 0 => g.longitude_uncertainty = U0
               /\ c[3] = 0 => g.altitude_uncertainty = U0
      /\ LET z == LastCodes(Z_CODE)
         IN  (z # <<>> /\ z[1] = 0) => g.sta_height_above_floor_uncertainty = U0

C10_Witness ==
    /\ ~Encoded /\ Len(subs) = 2
    /\ subs[1].ID = Z_CODE /\ subs[1].codes = <<1>>
    /\ subs[2].ID = Z_CODE /\ subs[2].nlen = 5 /\ subs[2].codes = <<0>>
    /\ g.sta_height_above_floor_uncertainty = U0

---------------------------------------------------------------------------
(* Properties of the encoder's uncertainty codes *)

\* the octet at which encodeLCIstring wrote the Z subelement
ZAt == IF g0.wantLCIflag # 0 THEN 3 + 18 ELSE 3

\* the uncertainty octet of the Z subelement of str
EncodedZCode == getoctet(str, ZAt + 7)

\* the code that stands for an uncertainty of 0 under the policy of the record G
ZeroCode(G, max) == IF G.smallestflag = 0 THEN 0 ELSE max

\* the code c written for the uncertainty u is that of C11: the zero code of the
\* policy for u = 0, and not 0 for u > 0
ZeroRule(u, c, max) ==
    /\ u.sgn = 0 => c = ZeroCode(g0, max)
    /\ u.sgn = 1 => c # 0

\* C11: an uncertainty of exactly 0 is encoded as code 0 by default and as the
\* maximum code of its field (34, for the height 24) when smallestflag is set,
\* and a positive uncertainty is never encoded as code 0
C11_ZeroUncertaintyCode ==
    Encoded =>
      /\ g0.wantLCIflag # 0 =>
            /\ ZeroRule(g0.latitude_uncertainty, EncodedCode(0), MAX_LCI_UNCERTAINTY)
            /\ ZeroRule(g0.longitude_uncertainty, EncodedCode(40), MAX_LCI_UNCERTAINTY)
            /\ ZeroRule(g0.altitude_uncertainty, EncodedCode(84), MAX_LCI_UNCERTAINTY)
      /\ g0.wantZflag # 0 =>
            ZeroRule(g0.sta_height_above_floor_uncertainty, EncodedZCode, MAX_Z_UNCERTAINTY)

C11_Witness ==
    /\ Encoded /\ g0.smallestflag # 0 /\ g0.wantLCIflag # 0 /\ g0.wantZflag # 0
    /\ g0.altitude_uncertainty = U0 /\ EncodedCode(84) = MAX_LCI_UNCERTAINTY
    /\ g0.sta_height_above_floor_uncertainty = U0 /\ EncodedZCode = MAX_Z_UNCERTAINTY

\* the line m has been printed
Printed(m) == \E i \in 1 .. Len(diag) : diag[i] = m

\* m - ceil(log2(u) - eps) for the positive uncertainty u
ComputedCode(u, m) == m - (IF u.f = 2 THEN u.e + 1 ELSE u.e)

\* the code c written for the uncertainty u is that of C12: the computed code if
\* that is one of 1 .. max, 1 with a diagnostic if it is not positive, max with a
\* diagnostic if it is above max
CodeRule(u, m, c, max) ==
    u.sgn = 1 =>
        LET k == ComputedCode(u, m)
        IN  /\ k \in 1 .. max => c = k
            /\ k <= 0 => (c = 1 /\ Printed("WARNING: uncertainty way too large"))
            /\ k > max => (c = max /\ Printed("WARNING: uncertainty too small"))

\* C12: a positive uncertainty u is encoded as m - ceil(log2(u) - eps) if that is
\* in 1 .. maximum of the field, as 1 with a diagnostic if it is not positive and
\* as the maximum (34, for the height 24) with a diagnostic if it is above
C12_CodeClamped ==
    Encoded =>
      /\ g0.wantLCIflag # 0 =>
            /\ CodeRule(g0.latitude_uncertainty, encodeLatLonPoint, EncodedCode(0),
                        MAX_LCI_UNCERTAINTY)
            /\ CodeRule(g0.longitude_uncertainty, encodeLatLonPoint, EncodedCode(40),
                        MAX_LCI_UNCERTAINTY)
            /\ CodeRule(g0.altitude_uncertainty, encodeAltitudePoint, EncodedCode(84),
                        MAX_LCI_UNCERTAINTY)
      /\ g0.wantZflag # 0 =>
            CodeRule(g0.sta_height_above_floor_uncertainty, 11, EncodedZCode,
                     MAX_Z_UNCERTAINTY)

\* C12 for the three fields of the LCI subelement alone
C12_LCIcodesClamped ==
    (Encoded /\ g0.wantLCIflag # 0) =>
        /\ CodeRule(g0.latitude_uncertainty, encodeLatLonPoint, EncodedCode(0),
                    MAX_LCI_UNCERTAINTY)
        /\ CodeRule(g0.longitude_uncertainty, encodeLatLonPoint, EncodedCode(40),
                    MAX_LCI_UNCERTAINTY)
        /\ CodeRule(g0.altitude_uncertainty, encodeAltitudePoint, EncodedCode(84),
                    MAX_LCI_UNCERTAINTY)

---------------------------------------------------------------------------
(* Properties of the Usage subelement *)

\* the string of encodeLCIstring holds a Usage subelement
UsageEmitted == \E i \in 1 .. Len(EmittedIDs) : EmittedIDs[i] = USAGE_CODE

\* encodeLCIstring wrote an LCI, Z or Colocated BSSID subelement whose content
\* is not the default
NeededEmitted ==
    \/ (g0.wantLCIflag # 0 /\ needLCIflag(g0))
    \/ (g0.wantZflag # 0 /\ needZflag(g0))
    \/ (g0.wantColocatedflag # 0 /\ needBSSIDflag(g0))

\* C13: encodeLCIstring emits the Usage subelement if and only if wantUsageflag
\* is set and an LCI, Z or Colocated BSSID subelement with non-default content
\* was emitted in this encoding; none is emitted when the include flags of LCI,
\* Z and BSSID are all cleared
C13_UsageOnlyWithContent ==
    Encoded => (UsageEmitted <=> (g0.wantUsageflag # 0 /\ NeededEmitted))

\* the octet at which the subelement ID begins in the element s, looked for from
\* octet n on by the length octets; -1 if there is none
RECURSIVE SubelementAt(_, _, _)
SubelementAt(s, n, ID) ==
    IF 2 * n + 3 >= Len(s) THEN -1
    ELSE IF getoctet(s, n) = ID THEN n
    ELSE SubelementAt(s, n + 2 + getoctet(s, n + 1), ID)

UsageAt == SubelementAt(CString(str), 3, USAGE_CODE)

\* bit 1 of the parameter octet of the Usage subelement of str
EncodedRetentionExpiresPresent == (getoctet(str, UsageAt + 2) \div 2) % 2

\* C14: in the Usage subelement that encodeUsageField wrote (for an expiration of
\* 0 .. 65535) RetentionExpiresPresent is set if and only if the expiration is
\* not 0; the length is 3 and two big-endian octets hold the expiration if it is
\* set, the length is 1 if not; and the inconsistency is reported exactly when
\* the flag supplied was set with expiration 0 or clear with an expiration not 0
C14_UsageReconciled ==
    (Encoded /\ UsageEmitted /\ g0.expiration \in 0 .. 65535) =>
      /\ EncodedRetentionExpiresPresent = 1 <=> g0.expiration # 0
      /\ EncodedRetentionExpiresPresent = 1 =>
            /\ getoctet(str, UsageAt + 1) = 3
            /\ getoctet(str, UsageAt + 3) = g0.expiration \div 256
            /\ getoctet(str, UsageAt + 4) = g0.expiration % 256
            /\ strlen(str) = (UsageAt + 5) * 2
      /\ EncodedRetentionExpiresPresent = 0 =>
            /\ getoctet(str, UsageAt + 1) = 1
            /\ strlen(str) = (UsageAt + 3) * 2
      /\ Printed("WARNING: Inconsistency: Retention_expires_present true but expiration == 0")
            <=> (g0.retention_expires_present # 0 /\ g0.expiration = 0)
      /\ Printed("WARNING: Inconsistency: Retention_expires_present false but expiration != 0")
            <=> (g0.retention_expires_present = 0 /\ g0.expiration # 0)

C14_Witness ==
    /\ Encoded /\ UsageEmitted
    /\ g0.retention_expires_present = 0 /\ g0.expiration = 256
    /\ EncodedRetentionExpiresPresent = 1
    /\ getoctet(str, UsageAt + 3) = 1 /\ getoctet(str, UsageAt + 4) = 0
    /\ Printed("WARNING: Inconsistency: Retention_expires_present false but expiration != 0")

---------------------------------------------------------------------------
(* Properties of the Colocated BSSID subelement *)

\* the 6-octet groups of the payload of the Colocated BSSID subelement at octet
\* at of str, behind its MaxBSSIDIndicator octet
Groups(at, N) ==
    [k \in 1 .. N |-> SubSeq(str, (at + 3 + 6 * (k - 1)) * 2 + 1, (at + 3 + 6 * k) * 2)]

\* the last iteration of the loop that decoded a Colocated BSSID subelement, 0 if none
LastColocated ==
    LET I == {i \in 1 .. Len(subs) : subs[i].ID = COLOCATED_BSSID /\ ~subs[i].brk}
    IN  IF I = {} THEN 0 ELSE CHOOSE i \in I : \A j \in I : j <= i

\* str is the string that decodeLCIstring was last called with, and subs and g are
\* what its loop has made of it
Decoding ==
    \/ pc \in {"decode", "break"}
    \/ (/\ pc = "main" /\ called # <<>>
        /\ called[Len(called)] \notin {"encodeLCIstring", "encode_Sydney_Opera_House"})

---------------------------------------------------------------------------
(* Properties of the policy warnings *)

\* the lines of checksettings
PolicyWarnings ==
    {"WARNING: Android: retransmission_allowed is false",
     "WARNING: Android: retention_expires_present is true",
     "WARNING: Android: expiration time != 0",
     "WARNING: Android: expected_to_move is true"}

\* the call that main() made last has printed a line of checksettings
PolicyWarned == \E i \in mark + 1 .. Len(diag) : diag[i] \in PolicyWarnings

\* the configurations of C16
Restricted(G) ==
    \/ G.retransmission_allowed = 0
    \/ G.retention_expires_present # 0
    \/ G.expiration # 0
    \/ G.expected_to_move # 0

\* the flag retention_expires_present is the only restriction of G, and it is
\* set with expiration 0: encodeUsageField clears it before it writes the string
OnlyEmptyRetention(G) ==
    /\ G.retention_expires_present # 0 /\ G.expiration = 0
    /\ G.retransmission_allowed # 0 /\ G.expected_to_move = 0

\* encodeLCIstring has just returned
JustEncoded ==
    /\ pc \in {"main", "done"} /\ called # <<>>
    /\ called[Len(called)] \in {"encodeLCIstring", "encode_Sydney_Opera_House"}

---------------------------------------------------------------------------
(* The example *)

\* decodeLCIstring(lci2) has returned and nothing was called after it
DecodedSample ==
    pc = "main" /\ called # <<>> /\ called[Len(called)] = "decodeLCIstring(lci2)"

\* C17: the decoding of lci2 finds a good header (1, 0, 8), an LCI subelement of
\* length 16, a Z subelement of length 6 with floor 0 and height above floor 0
\* and a Usage subelement of length 1 with retransmission_allowed true,
\* retention_expires_present false, STA_location_policy false and expiration 0,
\* and prints no ERROR: or WARNING: line
C17_SampleDecoded ==
    DecodedSample =>
        /\ getoctet(str, 0) = MEASURE_TOKEN
        /\ getoctet(str, 1) = MEASURE_REQUEST_MODE
        /\ getoctet(str, 2) = LCI_TYPE
        /\ Len(subs) = 3
        /\ subs[1].ID = LCI_CODE /\ subs[1].nlen = 16 /\ subs[1].at = 3
        /\ subs[2].ID = Z_CODE /\ subs[2].nlen = 6 /\ subs[2].at = subs[1].next
        /\ subs[3].ID = USAGE_CODE /\ subs[3].nlen = 1 /\ subs[3].at = subs[2].next
        /\ subs[3].next = slen
        /\ g.sta_floor = D0 /\ g.sta_height_above_floor = D0
        /\ g.retransmission_allowed = 1 /\ g.retention_expires_present = 0
        /\ g.STA_location_policy = 0 /\ g.expiration = 0
        /\ mark = Len(diag)

C17_Witness ==
    /\ DecodedSample /\ Len(subs) = 3 /\ subs[3].ID = USAGE_CODE
    /\ diag # <<>> /\ mark = Len(diag)
    /\ g.retransmission_allowed = 1 /\ g.expected_to_move = 0

---------------------------------------------------------------------------
(* Properties of the string of encodeLCIstring *)

\* '0' .. '9' or 'a' .. 'f'
IsLowerHex(c) == (c >= 48 /\ c <= 57) \/ (c >= 97 /\ c <= 102)

\* C18: every character of the string of encodeLCIstring is a lowercase
\* hexadecimal digit, for every record and every accepted notation of a BSSID,
\* uppercase hex digits included
C18_LowercaseHex ==
    Encoded => \A i \in 1 .. Len(CString(str)) : IsLowerHex(str[i])

---------------------------------------------------------------------------
(* decodeLCIstring as a function of its string *)

\* the record held by the globals G: location, floor info, usage policy and the
\* list of BSSIDs
Record(G) ==
    <<G.latitude, G.longitude, G.altitude,
      G.latitude_uncertainty, G.longitude_uncertainty, G.altitude_uncertainty,
      G.Altitude_Type, G.datum, G.RegLoc_Agreement, G.RegLoc_DSE, G.Dependent_STA,
      G.LCI_version,
      G.expected_to_move, G.sta_floor, G.sta_height_above_floor,
      G.sta_height_above_floor_uncertainty,
      G.retransmission_allowed, G.retention_expires_present, G.STA_location_policy,
      G.expiration,
      G.bssid_index, G.BSSIDS>>

\* decodeLCIstring has returned and nothing was called after it
Decoded == Decoding /\ pc = "main"

\* C19: the record that decodeLCIstring leaves depends on its string alone: it
\* is the record that the decoding of the same string leaves when the record
\* held the defaults before, whatever the command line or an earlier call had
\* put into it
C19_DecodeIsPure == Decoded => Record(g) = Record(decodeLCIstring(Globals0, str))

\* the octets of the subelements that encodeLCIstring emitted for the record g0,
\* a Colocated BSSID subelement of N addresses counting for perBSSIDs + 6N
EmittedOctets(perBSSIDs) ==
    (IF g0.wantLCIflag # 0 THEN 18 ELSE 0)
    + (IF g0.wantZflag # 0 THEN 8 ELSE 0)
    + (IF g0.wantUsageflag # 0 /\ needUsageFlag(g0)
       THEN (IF g0.expiration # 0 THEN 5 ELSE 3) ELSE 0)
    + (IF g0.wantColocatedflag # 0 /\ needBSSIDflag(g0)
       THEN perBSSIDs + 6 * g0.bssid_index ELSE 0)

\* the number of octets of the string of encodeLCIstring
EncodedOctets == strlen(str) \div 2

\* C20: the string of encodeLCIstring has 3 octets, plus 18 if LCI was emitted,
\* plus 8 if Z was emitted, plus 3 or 5 (with expiration) if Usage was emitted,
\* plus 2 + 6N if a Colocated BSSID subelement of N > 0 addresses was emitted,
\* for every combination of the include flags, none emitted included
C20_StringSize == Encoded => EncodedOctets = 3 + EmittedOctets(2)

\* what holds of the size: a Colocated BSSID subelement has 3 + 6N octets (ID,
\* length, MaxBSSIDIndicator and the addresses), and the size is the sum when a
\* subelement was emitted
C20_SizeWhenEmitted == (Encoded /\ SomeEmitted) => EncodedOctets = 3 + EmittedOctets(3)

---------------------------------------------------------------------------
(* subelements with a disallowed length *)

\* the subelement e of the decoded string declares a length that its kind does
\* not allow
Disallowed(e) ==
    \/ (e.ID = LCI_CODE /\ e.nlen # 16)
    \/ (e.ID = Z_CODE /\ e.nlen \notin {5, 6})
    \/ (e.ID = USAGE_CODE /\ e.nlen \notin {1, 3})

\* the length errors that decodeLCIstring prints for a subelement of kind ID
LengthErrors(ID) ==
    {"ERROR: bad length code"}
    \cup (IF ID = LCI_CODE THEN {"ERROR: Unexpected length for LCI element"}
          ELSE IF ID = Z_CODE THEN {"ERROR: Unexpected length for Z subelement"}
          ELSE {"ERROR: Unexpected length for Usage Rules/Policy subelement"})

\* a length error for a subelement of kind ID was printed by the running decode
LengthReported(ID) == \E j \in mark + 1 .. Len(diag) : diag[j] \in LengthErrors(ID)

\* C21: every subelement of a disallowed length (LCI other than 16, Z other than
\* 6 or 5, Usage other than 1 or 3) that the loop of decodeLCIstring has met was
\* reported as a length error, and its payload was skipped: the cursor went to
\* the octet behind the declared length, unless the length overran the string
C21_DisallowedLengthReported ==
    Decoding =>
        \A i \in 1 .. Len(subs) :
            Disallowed(subs[i]) =>
                /\ LengthReported(subs[i].ID)
                /\ (~subs[i].brk => subs[i].next = subs[i].at + 2 + subs[i].nlen)

\* what holds of such a subelement: the iteration that meets it leaves every
\* field of the record as it was and moves the cursor behind its payload, or
\* breaks the loop when the declared length overruns the string
C21_SkippedUnchanged ==
    [][(pc = "decode" /\ pc' \in {"decode", "break"}
        /\ Disallowed([ID |-> getoctet(str, nbyt), nlen |-> getoctet(str, nbyt + 1)]))
       => /\ g' = g
          /\ \/ pc' = "break"
             \/ nbyt' = nbyt + 2 + getoctet(str, nbyt + 1)]_vars

\* an LCI subelement of length 0: the LCI field is optional, and the decoder
\* takes the subelement without it as one with nothing to do
EmptyLCI(e) == e.ID = LCI_CODE /\ e.nlen = 0

\* what holds of the report: every subelement of a disallowed length but the
\* empty LCI subelement was reported and skipped; the empty LCI subelement is
\* passed over without a message of its own
C21_ReportedUnlessEmpty ==
    Decoding =>
        \A i \in 1 .. Len(subs) :
            /\ (Disallowed(subs[i]) /\ ~EmptyLCI(subs[i])) =>
                  /\ LengthReported(subs[i].ID)
                  /\ (~subs[i].brk => subs[i].next = subs[i].at + 2 + subs[i].nlen)
            /\ (EmptyLCI(subs[i]) /\ ~subs[i].brk) => subs[i].next = subs[i].at + 2

\* C21 as it holds: a subelement of a disallowed length is reported as a length
\* error unless it is an LCI subelement of length 0, its payload is skipped
\* uninterpreted and no field of the record changes
C21_LengthChecked == []C21_ReportedUnlessEmpty /\ C21_SkippedUnchanged

\* a subelement of a disallowed length was skipped in a record that does not
\* hold the defaults
C21_Witness ==
    /\ Decoding
    /\ Record(g) # Record(Globals0)
    /\ \E i \in 1 .. Len(subs) :
          Disallowed(subs[i]) /\ ~EmptyLCI(subs[i]) /\ ~subs[i].brk

---------------------------------------------------------------------------
(* two invocations of the codec that run interleaved *)

\* strings that hold a whole record: an LCI and a Z subelement and the Usage
\* subelement of the default policy
CompleteStrings ==
    {Hdr \o HexOf(<<LCI_CODE, 16>>) \o LCIpayload(c, c, c) \o HexOf(<<Z_CODE, 6>> \o z)
         \o HexOf(<<USAGE_CODE, 1, 1>>) \o <<NUL>> :
        c \in {0, 1}, z \in {<<0, 0, 0, 0, 0, 0>>, <<0, 5, 0, 0, 3, 1>>}}

\* an invocation that has been called and has not run yet
Invoke(op, s) ==
    [op |-> op, str |-> s, nbyt |-> 0, slen |-> 0, pc |-> "called",
     ret |-> <<>>, out |-> <<>>]

Invoked ==
    {Invoke("decodeLCIstring", s) : s \in CompleteStrings}
    \cup {Invoke("encode_Sydney_Opera_House", <<>>)}

\* nothing has been called yet
InitTwo == Init

\* invocation k is called: decodeLCIstring(s) of a string s, or
\* encode_Sydney_Opera_House()
Call(k) ==
    /\ inv[k].pc = "idle"
    /\ \E i \in Invoked : inv' = [inv EXCEPT ![k] = i]
    /\ UNCHANGED <<g, str, junk, pc, todo, nbyt, slen, diag, mark, maxread, subs, g0, called, bf, heap>>

\* decodeLCIstring of invocation k up to its loop: nbyt and slen are its locals
EnterDecode(k) ==
    /\ inv[k].op = "decodeLCIstring" /\ inv[k].pc = "called"
    /\ inv' = [inv EXCEPT ![k].nbyt = 3, ![k].slen = strlen(inv[k].str) \div 2,
                          ![k].pc = "decode"]
    /\ UNCHANGED <<g, str, junk, pc, todo, nbyt, slen, diag, mark, maxread, subs, g0, called, bf, heap>>

\* the loop condition of decodeLCIstring in invocation k
InLoopOf(k) == inv[k].nbyt < inv[k].slen /\ CharAt(inv[k].str, inv[k].nbyt * 2) # NUL

\* one iteration of the loop of decodeLCIstring in invocation k: it assigns the
\* globals
DecodeStep(k) ==
    /\ inv[k].pc = "decode" /\ InLoopOf(k)
    /\ LET r == decodeSubelement(g, inv[k].str, inv[k].nbyt, inv[k].slen)
       IN  /\ g' = r.G
           /\ inv' = [inv EXCEPT ![k].nbyt = r.nbyt,
                                 ![k].pc = IF r.brk THEN "break" ELSE "decode"]
    /\ UNCHANGED <<str, junk, pc, todo, nbyt, slen, diag, mark, maxread, subs, g0, called, bf, heap>>

\* decodeLCIstring of invocation k returns: its result is the record in the globals
DecodeEnd(k) ==
    /\ inv[k].pc = "break" \/ (inv[k].pc = "decode" /\ ~InLoopOf(k))
    /\ inv' = [inv EXCEPT ![k].pc = "returned", ![k].ret = Record(g)]
    /\ UNCHANGED <<g, str, junk, pc, todo, nbyt, slen, diag, mark, maxread, subs, g0, called, bf, heap>>

\* encode_Sydney_Opera_House of invocation k assigns its record to the globals
SetRecord(k) ==
    /\ inv[k].op = "encode_Sydney_Opera_House" /\ inv[k].pc = "called"
    /\ g' = encode_Sydney_Opera_House(g)
    /\ inv' = [inv EXCEPT ![k].pc = "encode"]
    /\ UNCHANGED <<str, junk, pc, todo, nbyt, slen, diag, mark, maxread, subs, g0, called, bf, heap>>

\* and returns encodeLCIstring(), which reads the globals
EncodeRecord(k) ==
    /\ inv[k].pc = "encode"
    /\ LET r == encodeLCIstring(g)
       IN  /\ g' = r.G
           /\ inv' = [inv EXCEPT ![k].pc = "returned", ![k].out = r.str]
    /\ UNCHANGED <<str, junk, pc, todo, nbyt, slen, diag, mark, maxread, subs, g0, called, bf, heap>>

NextTwo ==
    \E k \in Invocations :
        Call(k) \/ EnterDecode(k) \/ DecodeStep(k) \/ DecodeEnd(k) \/ SetRecord(k) \/ EncodeRecord(k)

\* no lock: any invocation that can take a step may take the next one
SpecTwo == InitTwo /\ [][NextTwo]_vars

\* what the invocation i yields when it runs alone
Alone(i) ==
    IF i.op = "decodeLCIstring"
    THEN [ret |-> Record(decodeLCIstring(Globals0, i.str)), out |-> <<>>]
    ELSE [ret |-> <<>>, out |-> encodeLCIstring(encode_Sydney_Opera_House(Globals0)).str]

Returned(k) == inv[k].pc = "returned"

\* C22: of two invocations of the codec that run interleaved, each yields what it
\* yields when it runs alone: the record for a decode, the string for an encode
C22_Isolated ==
    \A k \in Invocations :
        Returned(k) => [ret |-> inv[k].ret, out |-> inv[k].out] = Alone(inv[k])

---------------------------------------------------------------------------
(* putbits and getbits on an array of their own *)

\* the octets of the array and the longest bit field (the 34 bits of latitude
\* and longitude)
BitOctets == 6
MaxBits == 34

\* arrays of BitOctets octets: as memset(str, '0', nlen) leaves them, and with
\* bits set all over
Arrays ==
    {[i \in 1 .. 2 * BitOctets |-> c] : c \in {48, 102}}
    \cup {[i \in 1 .. 2 * BitOctets |-> IF i % 3 = 0 THEN 97 ELSE IF i % 2 = 0 THEN 53 ELSE 99]}

FieldStarts == {0, 3, 8, 13, 14}

FieldLengths == {0, 1, 6, 8, 30, MaxBits}

\* values of fewer bits than the field, of more, and negative ones
FieldVals ==
    {LL0, IntToLL(1), IntToLL(-1), IntToLL(-MaxSmall - 1), [hi |-> 87381, lo |-> 43690],
     [hi |-> 1048581, lo |-> 131071]}

\* str = malloc(...), filled
Allocate ==
    /\ str = <<>>
    /\ str' \in Arrays
    /\ UNCHANGED <<g, junk, pc, todo, nbyt, slen, diag, mark, maxread, subs, g0, called, inv, bf, heap>>

\* putbits(str, bstart, nlen, val) for a field that lies in the array
PutBits ==
    /\ str # <<>> /\ bf = NoField
    /\ \E b \in FieldStarts, n \in FieldLengths, v \in FieldVals :
          /\ b + n <= 4 * Len(str)
          /\ str' = putbits(str, b, n, v)
          /\ bf' = [bstart |-> b, nlen |-> n, val |-> v, old |-> str, puts |-> 1]
    /\ UNCHANGED <<g, junk, pc, todo, nbyt, slen, diag, mark, maxread, subs, g0, called, inv, heap>>

NextBits == Allocate \/ PutBits

SpecBits == Init /\ [][NextBits]_vars

\* the value of the hex digit c
HexVal(c) == IF c >= 97 THEN c - 87 ELSE c - 48

\* bit j of the array s: bit j mod 8, counted from the least significant one, of
\* the octet floor(j / 8), which is two hex digits, the high one first
BitOf(s, j) ==
    ((HexVal(s[2 * (j \div 8) + 1]) * 16 + HexVal(s[2 * (j \div 8) + 2])) \div (2 ^ (j % 8))) % 2

\* v mod 2^n
LLmod(v, n) ==
    IF n <= 17 THEN [hi |-> 0, lo |-> v.lo % (2 ^ n)]
    ELSE [hi |-> v.hi % (2 ^ (n - 17)), lo |-> v.lo]

\* C23: after putbits(buf, b, n, v) bit b + i of the array is bit i of v for
\* i in 0 .. n-1, every other bit of the array is as it was, and
\* getbits(buf, b, n) is v mod 2^n
C23_PutbitsFrame ==
    bf.puts > 0 =>
        /\ Len(str) = Len(bf.old)
        /\ \A j \in 0 .. 4 * Len(str) - 1 :
              BitOf(str, j) = IF j >= bf.bstart /\ j < bf.bstart + bf.nlen
                              THEN LLbit(bf.val, j - bf.bstart)
                              ELSE BitOf(bf.old, j)
        /\ getbits(str, bf.bstart, bf.nlen) = LLmod(bf.val, bf.nlen)

\* a field of 34 bits that starts inside an octet was written with a value of
\* more than 34 bits into an array that had bits set on both sides of it
C23_Witness ==
    /\ bf.puts > 0 /\ bf.nlen = MaxBits /\ bf.bstart % 8 # 0
    /\ bf.val # LLmod(bf.val, bf.nlen)
    /\ BitOf(bf.old, bf.bstart - 1) = 1 /\ BitOf(bf.old, bf.bstart + bf.nlen) = 1
    /\ \E j \in bf.bstart .. bf.bstart + bf.nlen - 1 : BitOf(str, j) # BitOf(bf.old, j)

---------------------------------------------------------------------------
(* rounding of the fixed-point fields *)

\* the w-bit field F holds an integer nearest to x, a value in units of the
\* field: the error is at most half a unit
Nearest(x, F, w) ==
    LET n == [hi |-> x.hi, lo |-> x.lo]
    IN  IF x.fr <= 1 THEN F = LLmod(n, w)
        ELSE IF x.fr = 3 THEN F = LLmod(LLinc(n), w)
        ELSE F \in {LLmod(n, w), LLmod(LLinc(n), w)}

\* the bits of the LCI field of str from bit b on, and the numbers of its Z field
EncodedLCIbits(b, w) == getbits(Ptr(str, 5 * 2), b, w)

EncodedFloor == IntToLL(getnumber(str, ZAt + 2, 2) \div 4)

EncodedHeight == IntToLL(getnumber(str, ZAt + 4, 3))

\* latitude, longitude and altitude are written rounded to the nearest integer
LCIrounded ==
    /\ Nearest(g0.latitude, EncodedLCIbits(6, 34), 34)
    /\ Nearest(g0.longitude, EncodedLCIbits(46, 34), 34)
    /\ Nearest(g0.altitude, EncodedLCIbits(90, 30), 30)

\* C24: every fixed-point field of the string of encodeLCIstring is the value
\* times 2^m rounded to the nearest integer, so that the error is at most half
\* of 2^-m: latitude and longitude (m = 25), altitude (m = 8), floor (m = 4) and
\* height above floor (m = 12)
C24_RoundedToNearest ==
    JustEncoded =>
        /\ g0.wantLCIflag # 0 => LCIrounded
        /\ g0.wantZflag # 0 =>
              /\ Nearest(g0.sta_floor, EncodedFloor, 14)
              /\ Nearest(g0.sta_height_above_floor, EncodedHeight, 24)

\* what holds: the three fields of the LCI subelement are rounded
C24_LCIfieldsRounded == (JustEncoded /\ g0.wantLCIflag # 0) => LCIrounded

---------------------------------------------------------------------------
(* the array of BSSIDs *)

\* the slots of the array BSSIDS of the globals G
Capacity(G) == G.max_bssids + 1

\* C27: decodeColocatedBSSID stores no address outside the array of BSSIDs: for
\* every declared length the (length-1)/6 addresses it writes are no more than
\* the max_bssids + 1 slots, and bssid_index does not exceed them afterwards
C27_WithinCapacity ==
    /\ heap = "ok"
    /\ g.bssid_index <= Capacity(g)
    /\ Decoding =>
          \A i \in 1 .. Len(subs) :
              (subs[i].ID = COLOCATED_BSSID /\ ~subs[i].brk) =>
                  cdiv(subs[i].nlen - 1, 6) <= Capacity(g)

\* what holds: a subelement that declares no more addresses than the array
\* has slots is stored inside it
C27_FitsWhenDeclaredSo ==
    [][(pc = "decode" /\ pc' = "decode" /\ getoctet(str, nbyt) = COLOCATED_BSSID
        /\ cdiv(getoctet(str, nbyt + 1) - 1, 6) <= Capacity(g))
       => (heap' = heap /\ g'.bssid_index <= Capacity(g'))]_vars

---------------------------------------------------------------------------
(* termination of decodeLCIstring *)

\* the command lines of the fair specification: strings of one subelement of
\* every kind and a later one, strings cut short, repeated and overlong lists of
\* BSSIDs, and the example, which decodes what it has encoded
FairArgs ==
    {<<ArgS("-lci=", Hdr \o x \o Later)>> : x \in Elements}
    \cup {<<ArgS("-lci=", Cut(Hdr \o x, 1))>> : x \in OddElements \cup ColocatedElements}
    \cup {<<ArgS("-lci=", s)>> : s \in RepeatedColocated}
    \cup ManyBSSIDsArgs \cup SampleArgs

CommandlineFair == CommandlineFrom(FairArgs)

NextFair ==
    CommandlineFair \/ CallDecode \/ DecodeLoop \/ DecodeReturn \/ CallEncode \/ Exit \/ Abort

\* weak fairness: a sequential program takes its next step: the loop body runs while the loop
\* condition holds, and the function returns when it does not
SpecFair == Init /\ [][NextFair]_vars /\ WF_vars(DecodeLoop) /\ WF_vars(DecodeReturn)

\* an iteration of the loop, and the return of decodeLCIstring
Iterates == pc = "decode" /\ pc' \in {"decode", "break"}

Returns == pc \in {"decode", "break"} /\ pc' = "main"

\* each iteration moves the cursor on by at least 2 octets
CursorAdvances == [][Iterates => nbyt' >= nbyt + 2]_vars

\* the loop is left with the cursor at the end of the string, or by the break of
\* a declared length that overruns the string
LoopEnds ==
    [][/\ (pc = "decode" /\ pc' = "main") => (nbyt >= slen \/ CharAt(str, nbyt * 2) = NUL)
       /\ (Iterates /\ pc' = "break") => nbyt + 2 + getoctet(str, nbyt + 1) > slen]_vars

\* the policy checks are run once, at the return, and not in the loop
ChecksOnce ==
    [][/\ Returns => (diag' = diag \o checksettings(g) /\ g' = g /\ nbyt' = nbyt)
       /\ Iterates => \A i \in Len(diag) + 1 .. Len(diag') : diag'[i] \notin PolicyWarnings]_vars

\* C25: decodeLCIstring terminates: each iteration of its loop advances the
\* cursor by at least 2 and never moves it back, the loop ends when the cursor
\* is at the end of the string or a declared length overruns it, and the policy
\* checks run exactly once after it
C25_DecodeTerminates ==
    /\ CursorAdvances
    /\ LoopEnds
    /\ ChecksOnce
    /\ (pc = "decode" ~> pc = "main")

\* decodeLCIstring has returned after two iterations or more
C25_Witness == Decoded /\ Len(subs) >= 2 /\ nbyt >= slen

---------------------------------------------------------------------------
(* a decode/encode cycle *)

\* the string that encodeLCIstring returns for the record that decodeLCIstring
\* makes of the string s when the globals are G
Reencoded(G, s) == CString(encodeLCIstring(decodeLCIstring(G, s)).str)

\* C26: the string s that encodeLCIstring has returned is stable: decoding s and
\* encoding again returns s, for every record and every setting of the include
\* flags
C26_StableUnderCycle == JustEncoded => Reencoded(g, str) = CString(str)

\* the record that the decoding of the string s leaves still asks for the
\* Usage subelement, if the record G that s was made of asked for one
StillNeeded(G, s) ==
    (G.wantUsageflag # 0 /\ needUsageFlag(G)) => needUsageFlag(decodeLCIstring(G, s))

\* C26, the part that holds: decoding s and encoding again returns s when a
\* field of the decoded record is not 0, so that the Usage subelement of s is
\* written again
C26_StableWhenStillNeeded ==
    (JustEncoded /\ StillNeeded(g, str)) => Reencoded(g, str) = CString(str)

====
